---- MODULE Spec2Model ----
(***************************************************************************)
(* A model of the article-extraction core of huntress: the NewsExtract     *)
(* class (field fallback chains, status computation), the views built on   *)
(* it, and GeneralParser's title extraction.                               *)
(*                                                                         *)
(* Representation.  A JavaScript string is a sequence of one-character     *)
(* strings, so that trim, toLowerCase, indexOf, startsWith and the regular *)
(* expressions of the source are computed character by character.  null    *)
(* is the one-element sequence <<"null">>, which no string equals because  *)
(* its element is not a single character.  An instant (a Date, or the ISO  *)
(* string toISOString() makes of it) is a record carrying the minutes      *)
(* since 1970-01-01T00:00Z.  A parsed document is the record of the        *)
(* answers it gives to the selector queries the source asks of it.         *)
(***************************************************************************)
EXTENDS Integers, Sequences, FiniteSets, TLC

VARIABLES
    tzOffset,   \* the host's Date.getTimezoneOffset(), minutes (UTC - local)
    obj,        \* the NewsExtract instance under observation
    response,   \* outcome of the last get_scraper_api_response() on obj
    view,       \* outcome of the last parserExtensionView(body)
    ret,        \* outcome of the last direct method call on obj
    gp,         \* outcome of the last GeneralParser.parse(html)
    cmp,        \* the Compare instance under observation and its last eval(word)
    call        \* outcome of the last call of a method that reads no instance state

vars == <<tzOffset, obj, response, view, ret, gp, cmp, call>>

-----------------------------------------------------------------------------
(* JavaScript values *)

Null == <<"null">>
NotAString == <<"number">>          \* a value whose typeof is not "string"
NullList == <<Null>>                \* null where a list of strings is expected

IsString(s) == \A i \in 1..Len(s) : s[i] \notin {"null", "number"}
Truthy(s) == s # Null /\ s # <<>>   \* of a string-or-null value

Rep(c, n) == [i \in 1..n |-> c]

UpperLetters ==
    <<"A","B","C","D","E","F","G","H","I","J","K","L","M",
      "N","O","P","Q","R","S","T","U","V","W","X","Y","Z","A~">>
LowerLetters ==
    <<"a","b","c","d","e","f","g","h","i","j","k","l","m",
      "n","o","p","q","r","s","t","u","v","w","x","y","z","a~">>
Digits == {"0","1","2","3","4","5","6","7","8","9"}
WhiteSpace == {" ", "\n"}

ToLowerChar(c) ==
    IF \E i \in 1..Len(UpperLetters) : UpperLetters[i] = c
    THEN LowerLetters[CHOOSE i \in 1..Len(UpperLetters) : UpperLetters[i] = c]
    ELSE c

ToLowerCase(s) == [i \in 1..Len(s) |-> ToLowerChar(s[i])]

\* String.prototype.trim
Trim(s) ==
    IF \A i \in 1..Len(s) : s[i] \in WhiteSpace THEN <<>>
    ELSE LET a == CHOOSE i \in 1..Len(s) :
                    s[i] \notin WhiteSpace /\ \A j \in 1..(i-1) : s[j] \in WhiteSpace
             b == CHOOSE i \in 1..Len(s) :
                    s[i] \notin WhiteSpace /\ \A j \in (i+1)..Len(s) : s[j] \in WhiteSpace
         IN SubSeq(s, a, b)

MatchAt(s, sub, i) ==
    /\ i + Len(sub) - 1 <= Len(s)
    /\ \A k \in 1..Len(sub) : s[i + k - 1] = sub[k]

\* s.indexOf(sub) !== -1
Contains(s, sub) == \E i \in 1..(Len(s) + 1) : MatchAt(s, sub, i)

StartsWith(s, sub) == MatchAt(s, sub, 1)

\* helpers.ts: unicode() only trims
unicode(text) == Trim(text)

-----------------------------------------------------------------------------
(* Dates *)

\* days from 1970-01-01 to the civil date y-m-d (proleptic Gregorian)
DaysFromCivil(y, m, d) ==
    LET yy  == IF m <= 2 THEN y - 1 ELSE y
        era == yy \div 400
        yoe == yy - era * 400
        mp  == IF m > 2 THEN m - 3 ELSE m + 9
        doy == (153 * mp + 2) \div 5 + d - 1
        doe == yoe * 365 + yoe \div 4 - yoe \div 100 + doy
    IN era * 146097 + doe - 719468

IsLeap(y) == (y % 4 = 0 /\ y % 100 # 0) \/ y % 400 = 0
DaysInMonth(y, m) ==
    IF m = 2 THEN (IF IsLeap(y) THEN 29 ELSE 28)
    ELSE IF m \in {4, 6, 9, 11} THEN 30 ELSE 31

InvalidDate == [ok |-> FALSE, t |-> 0]      \* a Date whose getTime() is NaN
DateAt(t) == [ok |-> TRUE, t |-> t]

NaN == [nan |-> TRUE, v |-> 0]
Num(n) == [nan |-> FALSE, v |-> n]

\* new Date(year, monthIndex, day): local midnight, month and day overflow
\* carried, years 0..99 taken as 1900..1999
DateLocal(year, monthIndex, day, tz) ==
    IF year.nan \/ monthIndex.nan \/ day.nan THEN InvalidDate
    ELSE LET y0 == IF year.v \in 0..99 THEN 1900 + year.v ELSE year.v
             ym == y0 * 12 + monthIndex.v
             y  == ym \div 12
             m  == (ym % 12) + 1
         IN DateAt((DaysFromCivil(y, m, 1) + day.v - 1) * 1440 + tz)

DigitVal(c) == CHOOSE n \in 0..9 : <<"0","1","2","3","4","5","6","7","8","9">>[n + 1] = c

RECURSIVE DigitsVal(_)
DigitsVal(s) ==
    IF s = <<>> THEN 0
    ELSE DigitsVal(SubSeq(s, 1, Len(s) - 1)) * 10 + DigitVal(s[Len(s)])

\* the longest prefix of s made of digits
DigitPrefix(s) ==
    LET n == CHOOSE k \in 0..Len(s) :
                /\ \A i \in 1..k : s[i] \in Digits
                /\ (k < Len(s) => s[k + 1] \notin Digits)
    IN SubSeq(s, 1, n)

\* parseInt(s): optional sign, then leading digits; NaN when there are none
parseInt(s) ==
    LET neg  == Len(s) > 0 /\ s[1] = "-"
        body == IF Len(s) > 0 /\ s[1] \in {"-", "+"} THEN Tail(s) ELSE s
        ds   == DigitPrefix(body)
    IN IF ds = <<>> THEN NaN
       ELSE Num(IF neg THEN 0 - DigitsVal(ds) ELSE DigitsVal(ds))

AllDigits(s) == \A i \in 1..Len(s) : s[i] \in Digits

\* new Date(text) for the date texts the URL patterns can match.  Only the
\* shapes below are evaluated by the model:
\*   YYYY-MM-DD   the ISO date-only form: UTC midnight
\*   YYYY/MM/DD   not ISO: local midnight
\*   MM/DD/YYYY   not ISO: local midnight
\* with a month outside 1..12 or a day outside the month giving Invalid Date.
DateParseText(s, tz) ==
    IF Len(s) = 10 /\ AllDigits(SubSeq(s, 1, 4)) /\ s[5] = "-" /\ s[8] = "-"
    THEN LET y == DigitsVal(SubSeq(s, 1, 4))
             m == DigitsVal(SubSeq(s, 6, 7))
             d == DigitsVal(SubSeq(s, 9, 10))
         IN IF m \in 1..12 /\ d >= 1 /\ d <= DaysInMonth(y, m)
            THEN DateAt(DaysFromCivil(y, m, d) * 1440)
            ELSE InvalidDate
    ELSE IF Len(s) = 10 /\ AllDigits(SubSeq(s, 1, 4)) /\ s[5] = "/" /\ s[8] = "/"
    THEN LET y == DigitsVal(SubSeq(s, 1, 4))
             m == DigitsVal(SubSeq(s, 6, 7))
             d == DigitsVal(SubSeq(s, 9, 10))
         IN IF m \in 1..12 /\ d >= 1 /\ d <= DaysInMonth(y, m)
            THEN DateAt(DaysFromCivil(y, m, d) * 1440 + tz)
            ELSE InvalidDate
    ELSE IF Len(s) = 10 /\ AllDigits(SubSeq(s, 7, 10)) /\ s[3] = "/" /\ s[6] = "/"
    THEN LET y == DigitsVal(SubSeq(s, 7, 10))
             m == DigitsVal(SubSeq(s, 1, 2))
             d == DigitsVal(SubSeq(s, 4, 5))
         IN IF m \in 1..12 /\ d >= 1 /\ d <= DaysInMonth(y, m)
            THEN DateAt(DaysFromCivil(y, m, d) * 1440 + tz)
            ELSE InvalidDate
    ELSE InvalidDate

\* The value of a date-bearing attribute, already tokenised.  Stamp(...) is
\* the text "y-m-dThh:mi:00" with UTC offset off minutes (new Date of it is
\* that instant); Garbage is a non-empty text new Date cannot parse;
\* EmptyAttr is a missing or empty attribute; NoElement is no element at all.
Stamp(y, m, d, hh, mi, off) ==
    [kind |-> "stamp", y |-> y, m |-> m, d |-> d, hh |-> hh, mi |-> mi, off |-> off]
Garbage == [kind |-> "garbage", y |-> 0, m |-> 0, d |-> 0, hh |-> 0, mi |-> 0, off |-> 0]
EmptyAttr == [kind |-> "empty", y |-> 0, m |-> 0, d |-> 0, hh |-> 0, mi |-> 0, off |-> 0]
NoElement == [kind |-> "none", y |-> 0, m |-> 0, d |-> 0, hh |-> 0, mi |-> 0, off |-> 0]

\* new Date(String(value)) of a non-empty attribute value
DateParseStamp(p) ==
    IF p.kind = "stamp"
    THEN DateAt(DaysFromCivil(p.y, p.m, p.d) * 1440 + p.hh * 60 + p.mi - p.off)
    ELSE InvalidDate

\* date.toISOString(): the instant in UTC; IsoNull is null
IsoNull == [null |-> TRUE, t |-> 0]
toISOString(date) == [null |-> FALSE, t |-> date.t]

\* iso.substring(0, 10): the UTC calendar day of the instant
IsoDay(iso) == iso.t \div 1440

-----------------------------------------------------------------------------
(* NewsExtract.extract_date_via_url *)

Separators == {"/", "-"}
DigitsAt(s, i, n) == i + n - 1 <= Len(s) /\ \A k \in i..(i + n - 1) : s[k] \in Digits
SepAt(s, i) == i <= Len(s) /\ s[i] \in Separators

\* how many characters \d{1,2} takes at i when a separator must follow
\* (greedy, with backtracking): 0 when it cannot match
OneOrTwoThenSep(s, i) ==
    IF DigitsAt(s, i, 2) /\ SepAt(s, i + 2) THEN 2
    ELSE IF DigitsAt(s, i, 1) /\ SepAt(s, i + 1) THEN 1
    ELSE 0

\* how many characters a trailing greedy \d{1,2} takes at i
OneOrTwo(s, i) == IF DigitsAt(s, i, 2) THEN 2 ELSE IF DigitsAt(s, i, 1) THEN 1 ELSE 0

\* length of the match of /(\d{4})[/-](\d{1,2})[/-](\d{1,2})/ starting at i, or 0
YmdMatchLen(s, i) ==
    IF ~(DigitsAt(s, i, 4) /\ SepAt(s, i + 4)) THEN 0
    ELSE LET n == OneOrTwoThenSep(s, i + 5)
         IN IF n = 0 THEN 0
            ELSE LET k == OneOrTwo(s, i + 6 + n)
                 IN IF k = 0 THEN 0 ELSE 6 + n + k

\* length of the match of /(\d{1,2})[/-](\d{1,2})[/-](\d{4})/ starting at i, or 0
MdyMatchLen(s, i) ==
    LET n == OneOrTwoThenSep(s, i)
    IN IF n = 0 THEN 0
       ELSE LET k == OneOrTwoThenSep(s, i + n + 1)
            IN IF k = 0 \/ ~DigitsAt(s, i + n + k + 2, 4) THEN 0
               ELSE n + k + 6

\* length of the match of /(\d{4})(\d{2})(\d{2})/ starting at i, or 0
CompactMatchLen(s, i) == IF DigitsAt(s, i, 8) THEN 8 ELSE 0

datePatterns == <<"ymd", "mdy", "compact">>

PatternMatchLen(pattern, s, i) ==
    IF pattern = "ymd" THEN YmdMatchLen(s, i)
    ELSE IF pattern = "mdy" THEN MdyMatchLen(s, i)
    ELSE CompactMatchLen(s, i)

\* url.match(pattern)[0]: the leftmost match, or Null
FirstMatch(pattern, s) ==
    IF \E i \in 1..Len(s) : PatternMatchLen(pattern, s, i) > 0
    THEN LET i == CHOOSE j \in 1..Len(s) :
                    /\ PatternMatchLen(pattern, s, j) > 0
                    /\ \A h \in 1..(j - 1) : PatternMatchLen(pattern, s, h) = 0
         IN SubSeq(s, i, i + PatternMatchLen(pattern, s, i) - 1)
    ELSE Null

NumMinus1(n) == IF n.nan THEN NaN ELSE Num(n.v - 1)

\* the Date the loop body makes of one match
DateOfMatch(match, tz) ==
    IF Len(match) = 8
    THEN DateLocal(parseInt(SubSeq(match, 1, 4)),
                   NumMinus1(parseInt(SubSeq(match, 5, 6))),
                   parseInt(SubSeq(match, 7, 8)), tz)
    ELSE DateParseText(match, tz)

RECURSIVE UrlDateFrom(_, _, _)
UrlDateFrom(k, url, tz) ==
    IF k > Len(datePatterns) THEN IsoNull
    ELSE LET match == FirstMatch(datePatterns[k], url)
         IN IF match # Null /\ DateOfMatch(match, tz).ok
            THEN toISOString(DateOfMatch(match, tz))
            ELSE UrlDateFrom(k + 1, url, tz)

extract_date_via_url(url, tz) == UrlDateFrom(1, url, tz)

-----------------------------------------------------------------------------
(* NewsExtract.clean_extracted_content                                      *)
(*                                                                          *)
(* The texts of the model are written over letters, digits, the space, the *)
(* line break and the apostrophe.  Of the literal words of the pattern      *)
(* library they hold only those of LineTailWords.  On such texts every pass *)
(* that needs a punctuation character or another listed word leaves the     *)
(* text as it is; the passes that can act are the ones below, applied in    *)
(* the order of the source.                                                 *)

RECURSIVE Join(_, _)
Join(list, sep) ==
    IF list = <<>> THEN <<>>
    ELSE IF Len(list) = 1 THEN list[1]
    ELSE list[1] \o sep \o Join(Tail(list), sep)

\* text.split('\n')
RECURSIVE SplitLines(_)
SplitLines(s) ==
    IF \A i \in 1..Len(s) : s[i] # "\n" THEN <<s>>
    ELSE LET i == CHOOSE j \in 1..Len(s) :
                    s[j] = "\n" /\ \A h \in 1..(j - 1) : s[h] # "\n"
         IN <<SubSeq(s, 1, i - 1)>> \o SplitLines(SubSeq(s, i + 1, Len(s)))

\* the first index >= p holding a non-whitespace character, Len(s)+1 if none
RunEnd(s, p) ==
    CHOOSE q \in p..(Len(s) + 1) :
        /\ \A i \in p..(q - 1) : s[i] \in WhiteSpace
        /\ (q <= Len(s) => s[q] \notin WhiteSpace)

\* the first index of the whitespace run that holds index p
RunStart(s, p) ==
    CHOOSE a \in 1..p :
        /\ \A i \in a..p : s[i] \in WhiteSpace
        /\ (a > 1 => s[a - 1] \notin WhiteSpace)

NewlinesIn(s, a, b) == {i \in a..b : s[i] = "\n"}
MaxOf(S) == CHOOSE x \in S : \A y \in S : y <= x
MinOf(S) == CHOOSE x \in S : \A y \in S : x <= y

\* the characters of s at the indices Kept accepts, in order
KeepAt(s, Kept(_)) ==
    LET idx == SelectSeq([i \in 1..Len(s) |-> i], Kept)
    IN [k \in 1..Len(idx) |-> s[idx[k]]]

\* the words the pattern library removes together with the rest of their
\* line (/word.*$/gm), in the order of the library: navigation labels,
\* newsletter prompts, section headers
LineTailWords ==
    <<
       <<"N","e","x","t"," ","S","t","o","r","y">>,
       <<"V","I","E","W"," ","M","O","R","E">>,
       <<"M","o","s","t"," ","P","o","p","u","l","a","r">>,
       <<"O","t","h","e","r"," ","S","t","o","r","i","e","s">>,
       <<"R","e","c","o","m","m","e","n","d","e","d"," ","f","o","r"," ","y","o","u">>,
       <<"L","O","A","D","I","N","G"," ","C","O","N","T","E","N","T">>,
       <<"L","O","A","D"," ","M","O","R","E"," ","A","R","T","I","C","L","E","S">>,
       <<"R","E","T","R","Y"," ","L","O","A","D","I","N","G">>,
       <<"S","i","g","n"," ","u","p"," ","f","o","r">>,
       <<"S","t","a","y"," ","u","p","-","t","o","-","d","a","t","e">>,
       <<"P","l","e","a","s","e"," ","e","n","t","e","r"," ","a"," ","v","a","l","i","d"," ","e","m","a","i","l"," ","a","d","d","r","e","s","s">>,
       <<"Y","o","u","r"," ","e","m","a","i","l"," ","i","s"," ","s","a","f","e"," ","w","i","t","h"," ","u","s">>,
       <<"A","t"," ","a"," ","G","l","a","n","c","e">>,
       <<"B","r","a","n","d"," ","T","a","l","k">>,
       <<"S","p","o","r","t","s">>,
       <<"P","i","n","o","y"," ","A","b","r","o","a","d">>,
       <<"S","c","i","T","e","c","h">>,
       <<"S","h","o","w","b","i","z">>,
       <<"L","i","f","e","s","t","y","l","e">>,
       <<"O","p","i","n","i","o","n">>,
       <<"H","a","s","h","t","a","g">>,
       <<"N","e","w","s">>,
       <<"M","o","n","e","y">> >>

\* content.replace(/word.*$/gm, ''): on every line the first occurrence of
\* the word goes, with all that follows it on the line
CutLineTail(s, word) ==
    IF ~Contains(s, word) THEN s
    ELSE KeepAt(s, LAMBDA i : ~\E p \in 1..i :
                                  MatchAt(s, word, p) /\ \A k \in p..i : s[k] # "\n")

\* the patterns applied one after the other, each to the result of the last
RECURSIVE CutLineTails(_, _)
CutLineTails(s, words) ==
    IF words = <<>> THEN s
    ELSE IF ~Contains(s, Head(words)) THEN CutLineTails(s, Tail(words))
    ELSE CutLineTails(CutLineTail(s, Head(words)), Tail(words))

\* content.replace(/^\s*$/gm, ''): a whitespace run that begins at a line
\* start is removed up to the last line break it holds (wholly, when it
\* ends the text)
StripBlankLines(s) ==
    LET AtLineStart(i) ==
            \E p \in 1..i : /\ (p = 1 \/ s[p - 1] = "\n")
                            /\ \A k \in p..i : s[k] \in WhiteSpace
        Removed(i) ==
            /\ s[i] \in WhiteSpace
            /\ AtLineStart(i)
            /\ \/ RunEnd(s, i) > Len(s)
               \/ NewlinesIn(s, i + 1, RunEnd(s, i) - 1) # {}
    IN KeepAt(s, LAMBDA i : ~Removed(i))

\* content.replace(/\n\s*\n\s*\n/g, ''): a whitespace run holding three or
\* more line breaks is removed from its first line break to its last
StripTripleBreaks(s) ==
    LET Removed(i) ==
            /\ s[i] \in WhiteSpace
            /\ LET nl == NewlinesIn(s, RunStart(s, i), RunEnd(s, i) - 1)
               IN Cardinality(nl) >= 3 /\ MinOf(nl) <= i /\ i <= MaxOf(nl)
    IN KeepAt(s, LAMBDA i : ~Removed(i))

\* text.replace(/\s+/g, ' '): each whitespace run becomes one space
CollapseSpaces(s) ==
    LET First(i) == s[i] \notin WhiteSpace \/ i = 1 \/ s[i - 1] \notin WhiteSpace
        idx == SelectSeq([i \in 1..Len(s) |-> i], First)
    IN [k \in 1..Len(idx) |-> IF s[idx[k]] \in WhiteSpace THEN " " ELSE s[idx[k]]]

\* the line filter: a line is kept when, trimmed, it has at least 20
\* characters and is not made of digits and blanks only
KeepLine(line) ==
    LET trimmed == Trim(line)
    IN /\ ~(Len(trimmed) < 20)
       /\ ~(\A i \in 1..Len(trimmed) : trimmed[i] \in Digits \cup WhiteSpace)

\* the one pattern of the library with the flag i
Advertisement == <<"a","d","v","e","r","t","i","s","e","m","e","n","t">>

\* the pattern without the flag i: the word is removed as it is written
StripAdvertisementAsListed(s) ==
    IF ~Contains(s, Advertisement) THEN s
    ELSE KeepAt(s, LAMBDA i : ~\E p \in 1..i :
                                  /\ i < p + Len(Advertisement)
                                  /\ MatchAt(s, Advertisement, p))

\* content.replace(/advertisement/gi, ''): every occurrence of the word, in
\* whatever letter case, is removed; the rest of the line stays
StripAdvertisement(s) ==
    IF ~Contains(ToLowerCase(s), Advertisement) THEN s
    ELSE KeepAt(s, LAMBDA i : ~\E p \in 1..i :
                                  /\ i < p + Len(Advertisement)
                                  /\ MatchAt(ToLowerCase(s), Advertisement, p))

\* the line patterns listed before /advertisement/gi, and those after it
NavigationWords == SubSeq(LineTailWords, 1, 8)
PromptWords == SubSeq(LineTailWords, 9, Len(LineTailWords))

clean_extracted_content(content) ==
    IF ~Truthy(content) THEN <<>>
    ELSE LET cleanedContent ==
                 StripTripleBreaks(StripBlankLines(
                     CutLineTails(StripAdvertisement(CutLineTails(content, NavigationWords)),
                                  PromptWords)))
             lines          == SplitLines(cleanedContent)
             filteredLines  == SelectSeq(lines, KeepLine)
         IN Trim(CollapseSpaces(Join(filteredLines, <<"\n">>)))

\* content.replace(/'/g, '')
StripApostrophes(s) == SelectSeq(s, LAMBDA c : c # "'")

\* the method answering the empty string when it is given no content
ContentOrEmpty(_content) ==
    IF _content # Null
    THEN clean_extracted_content(unicode(StripApostrophes(_content)))
    ELSE <<>>

\* NewsExtract.__get_content
get_content(_content) ==
    IF _content # Null
    THEN clean_extracted_content(unicode(StripApostrophes(_content)))
    ELSE Null

-----------------------------------------------------------------------------
(* NewsExtract: the article record and the per-field methods *)

NoAuthor == <<"N","o"," ","-"," ","A","u","t","h","o","r">>      \* "No - Author"

\* helpers.ts NewsVariables.invalid_title_keys
invalid_title_keys ==
    << <<"p","a","g","e"," ","n","o","t"," ","f","o","u","n","d">>,
       <<"a","t","t","e","n","t","i","o","n"," ","r","e","q","u","i","r","e","d","!">>,
       <<"P","A~","!~","g","i","n","a"," ","n","o"," ",
         "e","n","c","o","n","t","r","a","d","a">> >>

OrEmpty(s) == IF Truthy(s) THEN s ELSE <<>>                      \* s || ''

NullArticle ==
    [null |-> TRUE, title |-> <<>>, text |-> <<>>, published_time |-> NoElement,
     authors |-> <<>>, top_image |-> [isArray |-> FALSE, items |-> <<>>]]

\* doc.querySelector('title') || doc.querySelector('h1') || doc.querySelector('.article-title')
TitleElement(page) ==
    IF page.titleEl # Null THEN page.titleEl
    ELSE IF page.h1El # Null THEN page.h1El
    ELSE page.articleTitleEl

\* el.textContent || el.getAttribute('content') || ''
AuthorText(el) ==
    IF Truthy(el.text) THEN el.text ELSE OrEmpty(el.content)

MapSeq(f(_), list) == [i \in 1..Len(list) |-> f(list[i])]

\* imageElement.getAttribute('content') || imageElement.getAttribute('src') || ''
TopImage(page) ==
    IF ~page.imageEl.el THEN <<>>
    ELSE IF Truthy(page.imageEl.content) THEN page.imageEl.content
    ELSE OrEmpty(page.imageEl.src)

\* NewsExtract.__get_newspaper3k_extract: null when the page cannot be parsed
get_newspaper3k_extract(page) ==
    IF ~page.dom THEN NullArticle
    ELSE LET el      == TitleElement(page)
             authors == SelectSeq(MapSeq(AuthorText, page.authorEls),
                                  LAMBDA a : Trim(a) # <<>>)
         IN [null |-> FALSE,
             title |-> IF el # Null THEN OrEmpty(Trim(el)) ELSE <<>>,
             text |-> Trim(Join(page.contentEls, <<"\n">>)),
             published_time |-> page.metaPublished,
             authors |-> IF Len(authors) > 0 THEN authors ELSE <<NoAuthor>>,
             top_image |-> [isArray |-> FALSE, items |-> <<TopImage(page)>>]]

\* the keys looked up without lower-casing either side
HasInvalidKeyExact(title) ==
    \E k \in 1..Len(invalid_title_keys) : Contains(title, invalid_title_keys[k])

\* does the title hold one of the keys, letter case aside
HasInvalidKey(title) ==
    \E k \in 1..Len(invalid_title_keys) :
        Contains(ToLowerCase(title), ToLowerCase(invalid_title_keys[k]))

\* NewsExtract.__get_title
get_title(_title, article) ==
    LET title == IF Truthy(_title) THEN unicode(_title)
                 ELSE IF ~article.null /\ Truthy(article.title) THEN unicode(article.title)
                 ELSE Null
    IN IF ~Truthy(title) THEN Null
       ELSE IF HasInvalidKey(title) THEN Null
       ELSE title

\* the author lookup answering null when it finds no name
AuthorNamesNull(page) == NullList

\* Author (general_parser.ts): the soup is a stub whose find_all answers []
\* and whose find answers null, so no tag is ever examined
AuthorNames(page) == <<NoAuthor>>

\* NewsExtract.__get_authors
get_authors(_author, article, page) ==
    IF _author # NullList /\ Len(_author) > 0 THEN _author
    ELSE IF ~article.null /\ Len(article.authors) > 0 THEN article.authors
    ELSE AuthorNames(page)

\* the value the forEach callback returns for one element
DateCallback(value) ==
    IF value.kind \in {"stamp", "garbage"} /\ DateParseStamp(value).ok
    THEN toISOString(DateParseStamp(value))
    ELSE IsoNull

\* NewsExtract.main_date_extractor: the dates are computed inside forEach
\* callbacks, whose return values forEach discards; the function itself
\* reaches `return null` whatever the elements hold
main_date_extractor(page, url) ==
    LET found == MapSeq(DateCallback, IF page.dom THEN page.dateEls ELSE <<>>)
    IN IsoNull

\* the comparison made on the whole ISO strings, not on their first 10 characters
ResolveDatesWhole(publish_date, pub_date_via_url) ==
    IF ~pub_date_via_url.null /\ pub_date_via_url.t # publish_date.t
    THEN pub_date_via_url
    ELSE publish_date

\* which of the two dates wins when both exist
ResolveDates(publish_date, pub_date_via_url) ==
    IF ~pub_date_via_url.null /\ IsoDay(pub_date_via_url) # IsoDay(publish_date)
    THEN pub_date_via_url
    ELSE publish_date

\* NewsExtract.__get_publish_date
get_publish_date(article, page, url, tz) ==
    LET article_date ==
            IF ~article.null /\ article.published_time.kind \in {"stamp", "garbage"}
            THEN DateParseStamp(article.published_time)
            ELSE InvalidDate
    IN IF article_date.ok
       THEN ResolveDates(toISOString(article_date), extract_date_via_url(url, tz))
       ELSE main_date_extractor(page, url)

http == <<"h","t","t","p">>
LogoWords ==
    { <<"l","o","g","o">>, <<"f","a","v","i","c","o","n">>,
      <<"i","c","o","n">>, <<"p","d","f">> }

\* image.match(/logo|favicon|icon|pdf/i)
MatchesLogo(image) == \E w \in LogoWords : Contains(ToLowerCase(image), w)

\* __get_images dropping only the first entry when it matches
ImagesDropEntry(article) ==
    IF article.null THEN <<>>
    ELSE LET top    == article.top_image
             images == IF top.isArray THEN top.items
                       ELSE IF Truthy(top.items[1]) THEN top.items ELSE <<>>
             kept   == SelectSeq(images, LAMBDA image : IsString(image) /\ StartsWith(image, http))
         IN IF Len(kept) > 0 /\ MatchesLogo(kept[1]) THEN Tail(kept) ELSE kept

\* NewsExtract.__get_images
get_images(article) ==
    IF article.null THEN <<>>
    ELSE LET top    == article.top_image
             images == IF top.isArray THEN top.items
                       ELSE IF Truthy(top.items[1]) THEN top.items ELSE <<>>
             kept   == SelectSeq(images, LAMBDA image : IsString(image) /\ StartsWith(image, http))
         IN IF Len(kept) > 0 /\ MatchesLogo(kept[1]) THEN <<>> ELSE kept

-----------------------------------------------------------------------------
(* NewsExtract: content selection *)

\* textContent of a container the page holds, cleaned; null when the page
\* cannot be parsed or holds no such container
SelectText(page, el) ==
    IF ~page.dom \/ el = Null THEN Null ELSE clean_extracted_content(OrEmpty(el))

\* the same for the selectors that join the text of the container's <p> tags
SelectParagraphs(page, ps) ==
    IF ~page.dom \/ ps = NullList THEN Null
    ELSE clean_extracted_content(Join(MapSeq(OrEmpty, ps), <<"\n">>))

\* NewsExtract.fqdn_selectors
fqdn_selectors(page, fqdn) ==
    IF fqdn = "sunstar.com.ph" THEN SelectText(page, page.site.sunstar)
    ELSE IF fqdn = "showbizportal.net" THEN SelectText(page, page.site.showbizportal)
    ELSE IF fqdn = "therebelsweetheart.com" THEN SelectText(page, page.site.therebelsweetheart)
    ELSE IF fqdn = "lifeiskulayful.com" THEN SelectParagraphs(page, page.site.lifeiskulayful)
    ELSE IF fqdn = "bilyonaryo.com" THEN SelectParagraphs(page, page.site.bilyonaryo)
    ELSE Null

FqdnTruthy(fqdn) == fqdn \notin {"undefined", ""}

\* the retry of the per-site selector that ends the chain
SelectorRetry(page, fqdn) ==
    IF FqdnTruthy(fqdn) /\ fqdn_selectors(page, fqdn) # Null
    THEN [value |-> fqdn_selectors(page, fqdn), parser |-> "Selector Parser"]
    ELSE [value |-> Null, parser |-> "null"]

\* NewsExtract.__get_and_validate_content_parser: the value returned and the
\* value this.parser has afterwards.  content is null, "" or an object with
\* a text field.
get_and_validate_content_parser(content, article, page, fqdn) ==
    IF FqdnTruthy(fqdn) /\ Truthy(fqdn_selectors(page, fqdn))
    THEN [value |-> fqdn_selectors(page, fqdn), parser |-> "Selector Parser"]
    ELSE IF ~article.null /\ Truthy(article.text)
    THEN [value |-> article.text, parser |-> "NewsPaper3k Parser"]
    ELSE IF content.kind = "object"
    THEN IF content.text # Null /\ content.text # <<>>
         THEN [value |-> content.text, parser |-> "Content Parser"]
         ELSE SelectorRetry(page, fqdn)
    ELSE SelectorRetry(page, fqdn)

ContentNull == [kind |-> "null", text |-> Null]
ContentEmpty == [kind |-> "empty", text |-> Null]
ContentObject(text) == [kind |-> "object", text |-> text]

-----------------------------------------------------------------------------
(* NewsExtract: construction and the API response *)

\* given: the url and the kind of page source the constructor was called with
NoObject ==
    [state |-> "none", error |-> "null", given |-> [url |-> <<>>, enc |-> "missing"],
     url |-> <<>>, fqdn |-> "undefined",
     page |-> Null, scraped |-> FALSE, parser |-> "null", title |-> Null,
     authors |-> NullList, publish_date |-> IsoNull, images |-> <<>>,
     content |-> Null, steps |-> <<>>]

Thrown(message, given) ==
    [NoObject EXCEPT !.state = "thrown", !.error = message, !.given = given]

\* the text a source that is no markup parses to: a document without elements
PlainPage ==
    [dom |-> TRUE, titleEl |-> Null, h1El |-> Null, articleTitleEl |-> Null,
     contentEls |-> <<>>, metaPublished |-> NoElement, authorEls |-> <<>>,
     imageEl |-> [el |-> FALSE, content |-> Null, src |-> Null],
     site |-> [sunstar |-> Null, showbizportal |-> Null, therebelsweetheart |-> Null,
               lifeiskulayful |-> NullList, bilyonaryo |-> NullList],
     dateEls |-> <<>>]

\* this.html: the source as given, or decoded when it looks like base64 and
\* atob accepts it; a source atob rejects is kept as it is, and is plain text
Html(source) ==
    IF source.enc = "base64bad"
    THEN [source EXCEPT !.page = [PlainPage EXCEPT !.dom = source.page.dom]]
    ELSE source

\* what x || null gives for a string
OrNull(x) == IF Truthy(x) THEN x ELSE Null

ConstructorSteps ==
    <<"__clean_html", "__clean_html_parser", "__get_newspaper3k_extract", "__get_title",
      "__get_authors", "__get_publish_date", "__get_images",
      "__get_and_validate_content_parser", "__get_content">>

\* NewsExtract.constructor, the assignments of the try block: article is the
\* extract and chosen the outcome of __get_and_validate_content_parser
ConstructorFields(url, fqdn, tz, page, article, chosen) ==
    [state |-> "built", error |-> "null", given |-> [url |-> url, enc |-> "page"],
     url |-> url, fqdn |-> fqdn,
     page |-> page, scraped |-> TRUE, parser |-> chosen.parser,
     title |-> get_title(IF article.null THEN Null ELSE OrNull(article.title), article),
     authors |-> get_authors(IF article.null THEN NullList ELSE article.authors,
                             article, page),
     publish_date |-> get_publish_date(article, page, url, tz),
     images |-> get_images(article),
     content |-> get_content(chosen.value),
     steps |-> ConstructorSteps]

\* NewsExtract.constructor, from the extract on
ConstructorExtract(url, fqdn, tz, page, article) ==
    ConstructorFields(url, fqdn, tz, page, article,
        get_and_validate_content_parser(
            ContentObject(IF article.null THEN Null ELSE OrNull(article.text)),
            article, page, fqdn))

\* NewsExtract.constructor, once this.html is set
ConstructorHtml(url, fqdn, tz, html) ==
    IF html.enc = "missing"
    THEN Thrown("No Page Source passed", [url |-> url, enc |-> "missing"])
    ELSE ConstructorExtract(url, fqdn, tz, html.page, get_newspaper3k_extract(html.page))

\* the constructor testing !url alone, without typeof url !== "string"
ConstructorAnyUrl(url, source, fqdn, tz) ==
    IF ~Truthy(url)
    THEN Thrown("Invalid URL passed", [url |-> url, enc |-> source.enc])
    ELSE ConstructorHtml(url, fqdn, tz, Html(source))

\* NewsExtract.constructor
NewsExtractNew(url, source, fqdn, tz) ==
    IF ~(IsString(url) /\ Truthy(url))
    THEN Thrown("Invalid URL passed", [url |-> url, enc |-> source.enc])
    ELSE ConstructorHtml(url, fqdn, tz, Html(source))

NoPayload ==
    [threw |-> "null", full |-> FALSE, article_title |-> Null,
     article_authors |-> NullList, article_published_date |-> IsoNull,
     article_images |-> <<>>, article_content |-> Null,
     article_status |-> "null", article_error_status |-> "null"]

\* get_scraper_api_response deciding the status by content !== null alone
ResponseNullTest(o) ==
    IF ~o.scraped THEN [NoPayload EXCEPT !.threw = "Article not scraped"]
    ELSE [threw |-> "null", full |-> TRUE,
          article_title |-> o.title,
          article_authors |-> o.authors,
          article_published_date |-> o.publish_date,
          article_images |-> o.images,
          article_content |-> o.content,
          article_status |-> IF o.content # Null THEN "Done" ELSE "Error",
          article_error_status |-> IF o.content # Null THEN "null" ELSE "No Content"]

\* NewsExtract.get_scraper_api_response
get_scraper_api_response(o) ==
    IF ~o.scraped THEN [NoPayload EXCEPT !.threw = "Article not scraped"]
    ELSE [threw |-> "null", full |-> TRUE,
          article_title |-> o.title,
          article_authors |-> o.authors,
          article_published_date |-> o.publish_date,
          article_images |-> o.images,
          article_content |-> o.content,
          article_status |-> IF Truthy(o.content) THEN "Done" ELSE "Error",
          article_error_status |-> IF Truthy(o.content) THEN "null" ELSE "No Content"]

\* OnlineParser.get_article_extension, the try block around the constructed
\* instance and its answer, and the catch block
ExtensionAnswer(scraped_article, answer) ==
    IF scraped_article.state = "thrown"
    THEN [NoPayload EXCEPT !.article_status = "Error",
                           !.article_error_status = scraped_article.error]
    ELSE IF answer.threw # "null"
    THEN [NoPayload EXCEPT !.article_status = "Error",
                           !.article_error_status = answer.threw]
    ELSE answer

ExtensionOf(scraped_article) ==
    ExtensionAnswer(scraped_article, get_scraper_api_response(scraped_article))

\* OnlineParser.get_article_extension: the constructor is given no fqdn
get_article_extension(url, raw_content, tz) ==
    ExtensionOf(NewsExtractNew(url, raw_content, "undefined", tz))

NoBody == [null |-> TRUE, url |-> <<>>, raw_content |-> [enc |-> "missing", page |-> PlainPage]]
NoView ==
    [called |-> FALSE, body |-> NoBody, threw |-> "null", data |-> <<>>,
     status |-> "null", error_message |-> "null"]

\* get_fqdn(url): the hostname of the URL, "" when it cannot be parsed; the
\* URLs of the model have no port, user or query
get_fqdn(url) ==
    IF ~IsString(url) \/ ~\E i \in 1..Len(url) : MatchAt(url, <<":", "/", "/">>, i) THEN <<>>
    ELSE LET start == 3 + CHOOSE i \in 1..Len(url) :
                              /\ MatchAt(url, <<":", "/", "/">>, i)
                              /\ \A j \in 1..(i - 1) : ~MatchAt(url, <<":", "/", "/">>, j)
             stop  == IF \E k \in start..Len(url) : url[k] = "/"
                      THEN CHOOSE k \in start..Len(url) :
                               url[k] = "/" /\ \A j \in start..(k - 1) : url[j] # "/"
                      ELSE Len(url) + 1
         IN ToLowerCase(SubSeq(url, start, stop - 1))

\* parserExtensionView, the response built from the payload
ViewResponse(body, payload) ==
    IF payload.article_status = "Done"
    THEN [called |-> TRUE, body |-> body, threw |-> "null", data |-> <<payload>>,
          status |-> "Done", error_message |-> "null"]
    ELSE [called |-> TRUE, body |-> body, threw |-> "null", data |-> <<payload>>,
          status |-> "Error",
          error_message |-> IF payload.article_error_status \in {"null", ""}
                            THEN "Unknown error"
                            ELSE payload.article_error_status]

\* parserExtensionView
parserExtensionView(body, tz) ==
    IF body.null
    THEN [NoView EXCEPT !.called = TRUE, !.threw = "Invalid Request Parameter"]
    ELSE ViewResponse(body, get_article_extension(body.url, body.raw_content, tz))

-----------------------------------------------------------------------------
(* GeneralParser: the document, cleanDocument and extractTitle             *)
(*                                                                          *)
(* A document is its og:title and twitter:title meta contents, its JSON-LD  *)
(* script, the text of its <title>, and the list of its headings and        *)
(* title-class elements in document order.  An element is                   *)
(*   [tag, class, boxTag, boxClass, text]                                   *)
(* where the box is the container that holds this element alone ("body",    *)
(* no class, when there is none).  The documents of the model hold no       *)
(* comments, ids, hidden elements or footers.                               *)

REMOVE_TAGS ==
    { "script", "style", "noscript", "iframe", "embed", "object", "nav", "header", "aside",
      "menu", "menuitem", "form", "input", "button", "select", "textarea", "label", "canvas",
      "svg", "audio", "video", "source", "track", "map", "area", "base", "link", "meta", "title" }

REMOVE_CLASS_PATTERNS ==
    { <<"a","d","-">>, <<"a","d","s">>, <<"a","d","v","e","r","t">>,
      <<"a","d","v","e","r","t","i","s","e","m","e","n","t">>, <<"a","l","e","r","t">>,
      <<"a","s","i","d","e">>, <<"a","u","t","h","o","r","-","b","i","o">>,
      <<"a","v","a","t","a","r">>, <<"b","a","n","n","e","r">>, <<"b","i","o">>,
      <<"b","r","e","a","d","c","r","u","m","b">>, <<"c","a","r","o","u","s","e","l">>,
      <<"c","a","t","e","g","o","r","i","e","s">>, <<"c","a","t","e","g","o","r","y">>,
      <<"c","o","m","m","e","n","t">>, <<"c","o","m","m","e","n","t","s">>,
      <<"c","o","n","s","e","n","t">>, <<"c","o","n","t","r","o","l","s">>,
      <<"c","o","o","k","i","e">>, <<"d","a","t","e">>,
      <<"d","i","s","c","u","s","s","i","o","n">>, <<"d","i","s","l","i","k","e">>,
      <<"d","o","w","n","l","o","a","d">>, <<"d","r","o","p","d","o","w","n">>,
      <<"e","m","a","i","l">>, <<"e","m","b","e","d">>, <<"e","r","r","o","r">>,
      <<"f","i","l","t","e","r">>, <<"f","o","l","l","o","w">>,
      <<"g","a","l","l","e","r","y">>, <<"g","d","p","r">>, <<"h","e","a","d","e","r">>,
      <<"l","i","g","h","t","b","o","x">>, <<"l","i","k","e">>,
      <<"l","o","a","d","i","n","g">>, <<"m","e","n","u">>, <<"m","o","d","a","l">>,
      <<"m","o","s","t","-","r","e","a","d">>, <<"n","a","v">>,
      <<"n","a","v","i","g","a","t","i","o","n">>, <<"n","e","w","s","l","e","t","t","e","r">>,
      <<"n","e","x","t">>, <<"n","o","t","i","c","e">>, <<"o","u","t","b","r","a","i","n">>,
      <<"o","v","e","r","l","a","y">>, <<"p","a","g","e","r">>,
      <<"p","a","g","i","n","a","t","i","o","n">>, <<"p","d","f">>,
      <<"p","l","a","c","e","h","o","l","d","e","r">>,
      <<"p","l","a","y","e","r","-","c","o","n","t","r","o","l","s">>,
      <<"p","l","u","g","i","n">>, <<"p","o","p","u","l","a","r">>, <<"p","o","p","u","p">>,
      <<"p","r","e","v">>, <<"p","r","e","v","i","o","u","s">>, <<"p","r","i","n","t">>,
      <<"p","r","i","v","a","c","y">>, <<"p","r","o","f","i","l","e">>,
      <<"p","r","o","m","o">>, <<"p","u","b","l","i","s","h","e","d">>,
      <<"r","a","t","i","n","g">>, <<"r","e","c","o","m","m","e","n","d","e","d">>,
      <<"r","e","g","i","s","t","r","a","t","i","o","n">>, <<"r","e","l","a","t","e","d">>,
      <<"r","e","p","l","i","e","s">>, <<"r","e","p","l","y">>, <<"s","e","a","r","c","h">>,
      <<"s","h","a","r","e">>, <<"s","h","a","r","i","n","g">>,
      <<"s","i","d","e","b","a","r">>, <<"s","i","g","n","u","p">>,
      <<"s","l","i","d","e","r">>, <<"s","o","c","i","a","l">>, <<"s","o","r","t">>,
      <<"s","p","i","n","n","e","r">>, <<"s","t","a","r">>,
      <<"s","u","b","s","c","r","i","b","e">>, <<"t","a","b","o","o","l","a">>,
      <<"t","a","g">>, <<"t","a","g","s">>, <<"t","i","m","e">>,
      <<"t","i","m","e","s","t","a","m","p">>, <<"t","o","o","l","b","a","r">>,
      <<"t","r","e","n","d","i","n","g">>, <<"v","o","t","e">>,
      <<"w","a","r","n","i","n","g">>, <<"w","i","d","g","e","t">> }

\* the texts the patterns of cleanDocument take for navigation or UI labels
UiWords ==
    { <<"m","e","n","u">>, <<"n","a","v">>, <<"s","e","a","r","c","h">>,
      <<"l","o","g","i","n">>, <<"s","i","g","n"," ","i","n">>,
      <<"r","e","g","i","s","t","e","r">>, <<"s","u","b","s","c","r","i","b","e">>,
      <<"f","o","l","l","o","w">>, <<"s","h","a","r","e">>, <<"l","i","k","e">>,
      <<"c","o","m","m","e","n","t">>, <<"r","e","p","l","y">>, <<"n","e","x","t">>,
      <<"p","r","e","v","i","o","u","s">>, <<"m","o","r","e">>, <<"l","e","s","s">>,
      <<"s","h","o","w">>, <<"h","i","d","e">>, <<"c","l","o","s","e">>, <<"o","p","e","n">>,
      <<"t","o","g","g","l","e">>, <<"h","o","m","e">>, <<"a","b","o","u","t">>,
      <<"c","o","n","t","a","c","t">>, <<"p","r","i","v","a","c","y">>,
      <<"t","e","r","m","s">>, <<"c","o","o","k","i","e","s">>, <<"h","e","l","p">>,
      <<"s","u","p","p","o","r","t">>, <<"f","a","q">>, <<"f","a","c","e","b","o","o","k">>,
      <<"t","w","i","t","t","e","r">>, <<"i","n","s","t","a","g","r","a","m">>,
      <<"l","i","n","k","e","d","i","n">>, <<"y","o","u","t","u","b","e">>,
      <<"p","i","n","t","e","r","e","s","t">>, <<"r","e","d","d","i","t">> }

\* \w: the ASCII letters, the digits and the underscore
WordChars ==
    {UpperLetters[i] : i \in 1..26} \cup {LowerLetters[i] : i \in 1..26} \cup Digits \cup {"_"}

\* uiPatterns.some(pattern => pattern.test(trimmedText)), for a text under 50
UiText(trimmedText) ==
    /\ Len(trimmedText) < 50
    /\ \/ ToLowerCase(trimmedText) \in UiWords
       \/ /\ trimmedText # <<>>
          /\ \A i \in 1..Len(trimmedText) : trimmedText[i] \in Digits
       \/ /\ trimmedText # <<>>
          /\ \A i \in 1..Len(trimmedText) : trimmedText[i] \notin WordChars \cup WhiteSpace

\* [class*="pattern"] for one of the patterns
ClassRemoved(class) == \E pattern \in REMOVE_CLASS_PATTERNS : Contains(class, pattern)

\* does cleanDocument remove the element, alone or with its box
ElementRemoved(e) ==
    \/ e.tag \in REMOVE_TAGS \/ e.boxTag \in REMOVE_TAGS
    \/ ClassRemoved(e.class) \/ ClassRemoved(e.boxClass)
    \/ (e.tag \in {"div", "span", "section", "aside"}
           \/ e.boxTag \in {"div", "span", "section", "aside"}) /\ UiText(Trim(e.text))
    \/ Trim(e.text) = <<>>                                 \* removeEmptyElements

NoJsonLd == [kind |-> "none", headline |-> Null, name |-> Null, title |-> Null]
BadJsonLd == [NoJsonLd EXCEPT !.kind = "invalid"]
JsonLd(headline, name, title) ==
    [kind |-> "data", headline |-> headline, name |-> name, title |-> title]

\* GeneralParser.cleanDocument, on what extractTitle reads: the meta, script
\* and title elements go with REMOVE_TAGS
cleanDocument(doc) ==
    [doc EXCEPT !.ogTitle = Null, !.twitterTitle = Null, !.jsonLd = NoJsonLd,
                !.titleTag = Null,
                !.elements = SelectSeq(doc.elements, LAMBDA e : ~ElementRemoved(e))]

\* x || y || z of the JSON-LD fields
FirstTruthy(values) ==
    IF \E i \in 1..Len(values) : Truthy(values[i])
    THEN values[CHOOSE i \in 1..Len(values) :
                    Truthy(values[i]) /\ \A j \in 1..(i - 1) : ~Truthy(values[j])]
    ELSE Null

\* doc.querySelector(...)?.textContent?.trim() for the first element Matches accepts
FirstText(elements, Matches(_)) ==
    LET found == SelectSeq(elements, Matches)
    IN IF found = <<>> THEN Null ELSE Trim(found[1].text)

TitleSeparators == {"|", "-", "n-", "m-"}          \* | - en dash, em dash

\* title.split(/[|\-–—]/)[0]
BeforeSeparator(title) ==
    IF \E i \in 1..Len(title) : title[i] \in TitleSeparators
    THEN SubSeq(title, 1, (CHOOSE i \in 1..Len(title) :
                               /\ title[i] \in TitleSeparators
                               /\ \A j \in 1..(i - 1) : title[j] \notin TitleSeparators) - 1)
    ELSE title

MinTitleLength == 3
MaxTitleLength == 300
MinHeadingLength == 10
MaxHeadingLength == 200

ArticleTitleClasses ==
    { <<"t","i","t","l","e">>,
      <<"a","r","t","i","c","l","e","-","t","i","t","l","e">>,
      <<"p","o","s","t","-","t","i","t","l","e">>,
      <<"e","n","t","r","y","-","t","i","t","l","e">> }
TitleLikeClasses ==
    { <<"t","i","t","l","e">>,
      <<"a","r","t","i","c","l","e","-","t","i","t","l","e">>,
      <<"p","o","s","t","-","t","i","t","l","e">>,
      <<"p","a","g","e","-","t","i","t","l","e">> }
HeaderBoxes ==
    { <<"a","r","t","i","c","l","e","-","h","e","a","d","e","r">>,
      <<"p","o","s","t","-","h","e","a","d","e","r">> }

\* the nine titleSources of extractTitle, in order
titleSources(doc) ==
    << doc.ogTitle,
       doc.twitterTitle,
       IF doc.jsonLd.kind = "data"
       THEN FirstTruthy(<<doc.jsonLd.headline, doc.jsonLd.name, doc.jsonLd.title>>)
       ELSE Null,
       FirstText(doc.elements, LAMBDA e : e.tag = "h1" /\ e.class \in ArticleTitleClasses),
       FirstText(doc.elements,
                 LAMBDA e : e.tag = "h1" /\ (e.boxTag = "article" \/ e.boxClass \in HeaderBoxes)),
       FirstText(doc.elements,
                 LAMBDA e : /\ e.tag = "h1"
                            /\ Len(Trim(e.text)) > MinHeadingLength
                            /\ Len(Trim(e.text)) < MaxHeadingLength),
       IF doc.titleTag # Null /\ Trim(doc.titleTag) # <<>>
       THEN Trim(BeforeSeparator(Trim(doc.titleTag)))
       ELSE Null,
       FirstText(doc.elements, LAMBDA e : e.class \in TitleLikeClasses),
       FirstText(doc.elements, LAMBDA e : e.tag \in {"h1", "h2", "h3"}) >>

\* title && title.length > 3 && title.length < 300
ValidTitle(title) ==
    Truthy(title) /\ Len(title) > MinTitleLength /\ Len(title) < MaxTitleLength

UntitledPage == <<"U","n","t","i","t","l","e","d"," ","P","a","g","e">>

\* GeneralParser.extractTitle
extractTitle(doc) ==
    LET titles == titleSources(doc)
    IN IF \E i \in 1..Len(titles) : ValidTitle(titles[i])
       THEN titles[CHOOSE i \in 1..Len(titles) :
                       ValidTitle(titles[i]) /\ \A j \in 1..(i - 1) : ~ValidTitle(titles[j])]
       ELSE UntitledPage

NoParse ==
    [called |-> FALSE, threw |-> "null", html |-> "missing", doc |-> <<>>, title |-> Null]

\* GeneralParser.parse, the title of its result: html is "missing" for an
\* empty or non-string argument, "page" for a document
parse(html, doc) ==
    IF html = "missing"
    THEN [NoParse EXCEPT !.called = TRUE, !.threw = "Invalid HTML content provided"]
    ELSE [called |-> TRUE, threw |-> "null", html |-> html, doc |-> doc,
          title |-> extractTitle(cleanDocument(doc))]

-----------------------------------------------------------------------------
(* The inputs of the model *)

UrlPlain ==    \* "https://x.ph/news/story"
    <<"h","t","t","p","s",":","/","/","x",".","p","h","/","n","e","w","s","/","s","t","o","r","y">>
UrlDash ==    \* "https://x.ph/2024-01-06/story"
    <<"h","t","t","p","s",":","/","/","x",".","p","h","/","2","0","2","4","-","0","1","-","0","6","/","s","t","o","r","y">>
UrlSlash ==    \* "https://x.ph/2024/01/05/story"
    <<"h","t","t","p","s",":","/","/","x",".","p","h","/","2","0","2","4","/","0","1","/","0","5","/","s","t","o","r","y">>
UrlMdy ==    \* "https://x.ph/01/06/2024/story"
    <<"h","t","t","p","s",":","/","/","x",".","p","h","/","0","1","/","0","6","/","2","0","2","4","/","s","t","o","r","y">>
UrlCompact ==    \* "https://x.ph/20240106/story"
    <<"h","t","t","p","s",":","/","/","x",".","p","h","/","2","0","2","4","0","1","0","6","/","s","t","o","r","y">>
UrlUnpadded ==    \* "https://x.ph/2024-1-6/story"
    <<"h","t","t","p","s",":","/","/","x",".","p","h","/","2","0","2","4","-","1","-","6","/","s","t","o","r","y">>
UrlBadMonth ==    \* "https://x.ph/2024-13-45/s"
    <<"h","t","t","p","s",":","/","/","x",".","p","h","/","2","0","2","4","-","1","3","-","4","5","/","s">>

DatedUrls == {UrlDash, UrlSlash, UrlMdy, UrlCompact, UrlUnpadded, UrlBadMonth}
BadUrls == {<<>>, NotAString}

TitleStory ==    \* "  Breaking story  "
    <<" "," ","B","r","e","a","k","i","n","g"," ","s","t","o","r","y"," "," ">>
TitleNotFound ==    \* "404 Page Not Found"
    <<"4","0","4"," ","P","a","g","e"," ","N","o","t"," ","F","o","u","n","d">>
TitleNotFoundUpper ==    \* "PAGE NOT FOUND"
    <<"P","A","G","E"," ","N","O","T"," ","F","O","U","N","D">>
TitleAttention ==    \* "Attention Required! | Cloudflare"
    <<"A","t","t","e","n","t","i","o","n"," ","R","e","q","u","i","r","e","d","!"," ","|"," ","C","l","o","u","d","f","l","a","r","e">>
TitlePagina ==    \* "PÃ¡GINA NO ENCONTRADA"
    <<"P","A~","!~","G","I","N","A"," ","N","O"," ","E","N","C","O","N","T","R","A","D","A">>
TitlePageNot ==    \* "page not"
    <<"p","a","g","e"," ","n","o","t">>
TitleThree ==    \* "abc"
    <<"a","b","c">>
TitleFour ==    \* "abcd"
    <<"a","b","c","d">>
TitleHeadline ==    \* "Headline of the page"
    <<"H","e","a","d","l","i","n","e"," ","o","f"," ","t","h","e"," ","p","a","g","e">>
TitleClass ==    \* "Class title"
    <<"C","l","a","s","s"," ","t","i","t","l","e">>

TitleTexts ==
    { <<>>, <<" ", " ">>, TitleStory, TitleNotFound, TitleNotFoundUpper, TitleAttention,
      TitlePagina, TitlePageNot, TitleThree, TitleFour, Rep("a", 299), Rep("a", 300) }

TextLong ==    \* "aaaa bbbb cccc aaaa bbbb"
    <<"a","a","a","a"," ","b","b","b","b"," ","c","c","c","c"," ","a","a","a","a"," ","b","b","b","b">>
TextLongB ==    \* "cccc bbbb aaaa cccc bbbb"
    <<"c","c","c","c"," ","b","b","b","b"," ","a","a","a","a"," ","c","c","c","c"," ","b","b","b","b">>
TextShort ==    \* "abc abc"
    <<"a","b","c"," ","a","b","c">>
TextQuote ==    \* "it's a long and quiet river bank"
    <<"i","t","'","s"," ","a"," ","l","o","n","g"," ","a","n","d"," ","q","u","i","e","t"," ","r","i","v","e","r"," ","b","a","n","k">>
TextDigits ==    \* "1234 5678 9012 3456 7890 12"
    <<"1","2","3","4"," ","5","6","7","8"," ","9","0","1","2"," ","3","4","5","6"," ","7","8","9","0"," ","1","2">>
TextLines ==    \* "aaaa bbbb cccc aaaa bbbb\nabc\n\n\ncccc bbbb aaaa cccc bbbb"
    <<"a","a","a","a"," ","b","b","b","b"," ","c","c","c","c"," ","a","a","a","a"," ","b","b","b","b","\n","a","b","c","\n","\n","\n","c","c","c","c"," ","b","b","b","b"," ","a","a","a","a"," ","c","c","c","c"," ","b","b","b","b">>
ImagePhoto ==    \* "https://cdn.x/photo.jpg"
    <<"h","t","t","p","s",":","/","/","c","d","n",".","x","/","p","h","o","t","o",".","j","p","g">>
ImageLogo ==    \* "https://cdn.x/logo.png"
    <<"h","t","t","p","s",":","/","/","c","d","n",".","x","/","l","o","g","o",".","p","n","g">>
ImageFavicon ==    \* "https://cdn.x/FavIcon.ico"
    <<"h","t","t","p","s",":","/","/","c","d","n",".","x","/","F","a","v","I","c","o","n",".","i","c","o">>
ImageRelative ==    \* "/img/photo.jpg"
    <<"/","i","m","g","/","p","h","o","t","o",".","j","p","g">>
ImageUpper ==    \* "HTTP://cdn.x/a.jpg"
    <<"H","T","T","P",":","/","/","c","d","n",".","x","/","a",".","j","p","g">>
AuthorJane ==    \* "Jane Doe"
    <<"J","a","n","e"," ","D","o","e">>

ContentLists ==
    { <<>>, <<<<" ", " ">>>>, <<TextShort>>, <<TextLong>>, <<TextQuote>>, <<TextDigits>>,
      <<TextLong, TextShort, TextLongB>> }

SiteNames ==
    {"sunstar", "showbizportal", "therebelsweetheart", "lifeiskulayful", "bilyonaryo"}
SiteTexts == { <<" ", "\n">>, TextShort, TextLines }

\* the page with the container of one site added, holding the text v; the
\* <p> tags of a container are also among the elements the extract joins
WithSite(page, name, v) ==
    CASE name = "sunstar" ->
             [page EXCEPT !.site.sunstar = v, !.contentEls = @ \o <<v>>]
      [] name = "showbizportal" -> [page EXCEPT !.site.showbizportal = v]
      [] name = "therebelsweetheart" -> [page EXCEPT !.site.therebelsweetheart = v]
      [] name = "lifeiskulayful" ->
             [page EXCEPT !.site.lifeiskulayful = <<v>>, !.contentEls = @ \o <<v>>]
      [] name = "bilyonaryo" ->
             [page EXCEPT !.site.bilyonaryo = <<v, TextShort>>,
                          !.contentEls = @ \o <<v, TextShort>>]
      [] OTHER -> page

SitePages(page) ==
    {page} \cup { WithSite(page, n, v) : n \in SiteNames, v \in SiteTexts }

Fqdns ==
    { "undefined", "", "sunstar.com.ph", "showbizportal.net", "therebelsweetheart.com",
      "lifeiskulayful.com", "bilyonaryo.com", "philstar.com" }

StampJan5 == Stamp(2024, 1, 5, 0, 0, 0)
Metas ==
    { NoElement, EmptyAttr, Garbage, StampJan5, Stamp(2024, 1, 6, 0, 0, 0),
      Stamp(2024, 1, 5, 23, 30, -300), Stamp(2024, 1, 5, 16, 0, 0),
      Stamp(2024, 1, 4, 16, 0, 0) }
DateLists == { <<>>, <<Stamp(2024, 1, 7, 9, 0, 0)>>, <<Garbage, Stamp(2024, 1, 7, 9, 0, 0)>> }

NoImage == [el |-> FALSE, content |-> Null, src |-> Null]
ImageEls ==
    { NoImage } \cup
    { [el |-> TRUE, content |-> c, src |-> Null] :
        c \in {Null, <<>>, ImagePhoto, ImageLogo, ImageFavicon, ImageRelative, ImageUpper} } \cup
    { [el |-> TRUE, content |-> Null, src |-> ImagePhoto] }

AuthorLists ==
    { <<>>, <<[text |-> AuthorJane, content |-> Null]>>,
      <<[text |-> <<>>, content |-> AuthorJane]>>,
      <<[text |-> <<" ">>, content |-> Null], [text |-> <<>>, content |-> Null]>> }

\* an ordinary article page; the families below vary it field by field
BasePage ==
    [PlainPage EXCEPT !.titleEl = TitleStory, !.contentEls = <<TextLong>>,
                      !.metaPublished = StampJan5,
                      !.authorEls = <<[text |-> AuthorJane, content |-> Null]>>,
                      !.imageEl = [el |-> TRUE, content |-> ImagePhoto, src |-> Null]]

Raw(page) == [enc |-> "raw", page |-> page]
Args(url, source, fqdn) == [url |-> url, source |-> source, fqdn |-> fqdn]

TitleInputs ==
    { Args(UrlPlain, Raw([BasePage EXCEPT !.titleEl = t, !.h1El = h, !.articleTitleEl = a]),
           "undefined") :
        t \in TitleTexts \cup {Null}, h \in {Null, TitleHeadline}, a \in {Null, TitleClass} }

DateInputs ==
    { Args(u, Raw([BasePage EXCEPT !.metaPublished = m, !.dateEls = e]), "undefined") :
        u \in DatedUrls \cup {UrlPlain}, m \in Metas, e \in DateLists }

ContentInputs ==
    { Args(UrlPlain, Raw(pg), f) :
        pg \in UNION { SitePages([BasePage EXCEPT !.contentEls = c]) : c \in ContentLists },
        f \in Fqdns }

FieldInputs ==
    { Args(UrlPlain, Raw([BasePage EXCEPT !.imageEl = i, !.authorEls = a]), "undefined") :
        i \in ImageEls, a \in AuthorLists }

\* pages on which several fields fail at once, and sources that are no page
BareInputs ==
    { Args(u, [enc |-> e, page |-> [pg EXCEPT !.dom = dm]], f) :
        u \in BadUrls \cup {UrlPlain, UrlDash},
        e \in {"missing", "raw", "base64", "base64bad"},
        pg \in {PlainPage, BasePage,
                WithSite([PlainPage EXCEPT !.titleEl = TitleNotFound], "sunstar", TextLines)},
        dm \in BOOLEAN,
        f \in {"undefined", "sunstar.com.ph"} }

Inputs == UNION {TitleInputs, DateInputs, ContentInputs, FieldInputs, BareInputs}

TzOffsets == {-480, 0, 300}

UrlSunstar ==    \* "https://sunstar.com.ph/story"
    <<"h","t","t","p","s",":","/","/","s","u","n","s","t","a","r",".","c","o","m",".","p","h","/","s","t","o","r","y">>

\* requests for an article of a site that has a selector: the page with the
\* site's container, with other content elements or without
SunstarBodies ==
    { [null |-> FALSE, url |-> UrlSunstar,
       raw_content |-> Raw(WithSite([BasePage EXCEPT !.contentEls = c], "sunstar", v))] :
        c \in {<<>>, <<TextLong>>}, v \in SiteTexts }

Bodies ==
    {NoBody} \cup { [null |-> FALSE, url |-> a.url, raw_content |-> a.source] : a \in Inputs }
        \cup SunstarBodies

-----------------------------------------------------------------------------
(* Compare: the trigram index over a vocabulary and the lookup of a word    *)

InSeq(x, s) == \E i \in 1..Len(s) : s[i] = x

ToUpperChar(c) ==
    IF \E i \in 1..Len(LowerLetters) : LowerLetters[i] = c
    THEN UpperLetters[CHOOSE i \in 1..Len(LowerLetters) : LowerLetters[i] = c]
    ELSE c

\* String.prototype.toUpperCase, for the characters of the model (each has a
\* one-character upper case)
ToUpperCase(s) == [i \in 1..Len(s) |-> ToUpperChar(s[i])]

\* the windows taken without the two spaces on each side
WindowsUnpadded(word) ==
    [i \in 1..(Len(word) - 2) |-> SubSeq(ToUpperCase(word), i, i + 2)]

\* the list ordered by the percentage instead of the match count
RECURSIVE SortBySimilarity(_)
SortBySimilarity(result) ==
    IF result = <<>> THEN <<>>
    ELSE LET last == result[Len(result)]
             rest == SortBySimilarity(SubSeq(result, 1, Len(result) - 1))
         IN SelectSeq(rest, LAMBDA e : e.similarity >= last.similarity) \o <<last>> \o
            SelectSeq(rest, LAMBDA e : e.similarity < last.similarity)

\* data.substring(i, i + 3) for i from 0 to data.length - 3
Substrings(data) == [i \in 1..(Len(data) - 2) |-> SubSeq(data, i, i + 2)]

\* Compare.__to_trigram: the windows handed to the callback, in order
to_trigram(word) == Substrings(ToUpperCase(<<" ", " ">> \o word \o <<" ", " ">>))

\* the instance as the constructor initialises it; word_index values are
\* 0-based as in the code, position i + 1 of a list holds element i
EmptyCompare ==
    [words |-> <<>>, word_trigram_count |-> <<>>, trigrams |-> <<>>,
     trigrams_count |-> <<>>, trigrams_matches |-> 0]

\* this.trigrams[arg] || []
WordsForTrigram(trigrams, arg) == IF arg \in DOMAIN trigrams THEN trigrams[arg] ELSE <<>>

\* the callback of __set run over every window of one word: word_index is
\* pushed once to the list of each window, and each window is counted
SetTrigrams(c, word_index, grams) ==
    [c EXCEPT
        !.trigrams =
            [t \in DOMAIN c.trigrams \cup {grams[i] : i \in 1..Len(grams)} |->
                IF InSeq(t, grams) /\ ~InSeq(word_index, WordsForTrigram(c.trigrams, t))
                THEN Append(WordsForTrigram(c.trigrams, t), word_index)
                ELSE c.trigrams[t]],
        !.word_trigram_count[word_index + 1] = @ + Len(grams)]

\* Compare.__set
set(c, word) ==
    IF word = Null \/ word = <<>> \/ InSeq(word, c.words) THEN c
    ELSE SetTrigrams([c EXCEPT !.trigrams_count = Append(@, 0),
                               !.words = Append(@, word),
                               !.word_trigram_count = Append(@, 0)],
                     Len(c.words), to_trigram(word))

RECURSIVE SetAll(_, _)
SetAll(c, inputs) ==
    IF inputs = <<>> THEN c ELSE SetAll(set(c, Head(inputs)), Tail(inputs))

\* Compare.constructor
CompareNew(words_list) == SetAll(EmptyCompare, words_list)

\* the tally that counts a repeated window once
MatchesOnce(trigrams, grams, word_index) ==
    Cardinality({ grams[i] : i \in { j \in 1..Len(grams) :
                    InSeq(word_index, WordsForTrigram(trigrams, grams[j])) } })

\* how many windows of grams have word_index in their list: what the
\* callback of eval adds to word_matches[word_index] and to
\* trigrams_count[word_index]; a window the index does not hold throws
\* inside the callback and adds nothing
Matches(trigrams, grams, word_index) ==
    Cardinality({ i \in 1..Len(grams) :
                    InSeq(word_index, WordsForTrigram(trigrams, grams[i])) })

\* Math.round(word_matches / count * 100); exact for the counts of the model
Similarity(matches, count) == (200 * matches + count) \div (2 * count)

\* the threshold of eval on the unrounded percentage
MinPercentage == 49
\* the threshold put on the rounded percentage
ReachesRounded(matches, count) == Similarity(matches, count) >= MinPercentage
Reaches(matches, count) == 100 * matches >= MinPercentage * count

\* result.sort((a, b) => b.matches - a.matches): stable, most matches first
RECURSIVE SortByMatches(_)
SortByMatches(result) ==
    IF result = <<>> THEN <<>>
    ELSE LET last == result[Len(result)]
             rest == SortByMatches(SubSeq(result, 1, Len(result) - 1))
         IN SelectSeq(rest, LAMBDA e : e.matches >= last.matches) \o <<last>> \o
            SelectSeq(rest, LAMBDA e : e.matches < last.matches)

\* the entry of an eval that tallies in trigrams_count, which the instance
\* keeps from call to call, in place of its own word_matches
EvalEntryTallied(c, grams, i) ==
    [word |-> c.words[i],
     matches |-> c.trigrams_count[i] + Matches(c.trigrams, grams, i - 1),
     similarity |-> Similarity(c.trigrams_count[i] + Matches(c.trigrams, grams, i - 1),
                               c.word_trigram_count[i])]

\* the entry eval pushes for the word at position i; similarity is the
\* number in front of the "%"
EvalEntry(c, grams, i) ==
    [word |-> c.words[i], matches |-> Matches(c.trigrams, grams, i - 1),
     similarity |-> Similarity(Matches(c.trigrams, grams, i - 1), c.word_trigram_count[i])]

\* an eval that keeps its tally in word_trigram_count
EvalCounting(c, grams) ==
    [inst |-> [c EXCEPT
                  !.trigrams_matches = Len(grams),
                  !.word_trigram_count = [i \in 1..Len(c.word_trigram_count) |->
                      c.word_trigram_count[i] + Matches(c.trigrams, grams, i - 1)]],
     result |-> <<>>]

\* Compare.eval: the instance afterwards and the list returned
EvalWith(c, grams) ==
    [inst |-> [c EXCEPT
                  !.trigrams_matches = Len(grams),
                  !.trigrams_count = [i \in 1..Len(c.trigrams_count) |->
                                         c.trigrams_count[i] + Matches(c.trigrams, grams, i - 1)]],
     result |-> SortByMatches(
                    MapSeq(LAMBDA i : EvalEntry(c, grams, i),
                           SelectSeq([i \in 1..Len(c.trigrams_count) |-> i],
                                     LAMBDA i : Reaches(Matches(c.trigrams, grams, i - 1),
                                                        c.word_trigram_count[i]))))]

eval(c, word) == EvalWith(c, to_trigram(word))


\* ---------------------------------------------------------------------
\* Author.__is_invalid_tag: a tag is noise when one of its attribute
\* values is, or is similar to, a comment or footer key.  An attribute is
\* a string, a list of strings (class lists) or another object.
\* ---------------------------------------------------------------------

\* AuthorVariables.comment_keys and footer_keys
comment_keys == << <<"C","O","M","M","E","N","T">> >>
footer_keys ==
    << <<"F","O","O","T","E","R">>,
       <<"S","O","C","I","A","L">>,
       <<"S","H","A","R","E">>,
       <<"F","A","C","E","B","O","O","K">>,
       <<"T","W","I","T","T","E","R">> >>
INVALID_KEYS == comment_keys \o footer_keys

\* new Compare(INVALID_KEYS)
INVALID_KEY_DATA == CompareNew(INVALID_KEYS)

InvalidSimilarity == 70

\* the test made of one string v: key === v for some key, or the first
\* entry of the comparison eval(v), the one with the most matches, has a
\* similarity of 70 or more
FirstIsSimilar(comparison) ==
    comparison # <<>> /\ comparison[1].similarity >= InvalidSimilarity

IsInvalidValue(v) ==
    InSeq(v, INVALID_KEYS) \/ FirstIsSimilar(eval(INVALID_KEY_DATA, v).result)

StringAttr(v) == [kind |-> "string", value |-> v, items |-> <<>>]
ListAttr(items) == [kind |-> "list", value |-> <<>>, items |-> items]
ObjectAttr == [kind |-> "object", value |-> <<>>, items |-> <<>>]

\* typeof v !== 'object', else Array.isArray(v)
IsInvalidAttr(attr) ==
    CASE attr.kind = "string" -> IsInvalidValue(attr.value)
      [] attr.kind = "list" -> \E k \in 1..Len(attr.items) : IsInvalidValue(attr.items[k])
      [] OTHER -> FALSE

\* Author.__is_invalid_tag(tag), attrs being Object.entries(tag.attrs || {})
is_invalid_tag(attrs) == \E a \in 1..Len(attrs) : IsInvalidAttr(attrs[a])
\* ---------------------------------------------------------------------
\* GeneralParser: the content score of a block and the choice of the best
\* block.  An element is a record of what the code reads from it:
\* tagName, className, id, textContent, and the numbers of its p and a
\* descendants.  A score is kept exact as a fraction num / den, since the
\* link penalty is a quotient.
\* ---------------------------------------------------------------------

contentKeywords ==    \* content, article, post, story, text, body
    << <<"c","o","n","t","e","n","t">>, <<"a","r","t","i","c","l","e">>, <<"p","o","s","t">>, <<"s","t","o","r","y">>, <<"t","e","x","t">>, <<"b","o","d","y">> >>
navKeywords ==    \* nav, menu, sidebar, footer, header, ads, comment
    << <<"n","a","v">>, <<"m","e","n","u">>, <<"s","i","d","e","b","a","r">>, <<"f","o","o","t","e","r">>, <<"h","e","a","d","e","r">>, <<"a","d","s">>, <<"c","o","m","m","e","n","t">> >>

\* how many of the keywords occur in name (String.includes, once per keyword)
CountIn(keywords, name) ==
    Cardinality({ k \in 1..Len(keywords) : Contains(name, keywords[k]) })

\* score before the link penalty: text.length, 50 per p, 100 per content
\* keyword, -200 per navigation keyword
RawScore(text, paragraphs, className) ==
    Len(text) + 50 * paragraphs + 100 * CountIn(contentKeywords, className)
        - 200 * CountIn(navKeywords, className)

\* linkRatio = links / Math.max(text.length / 100, 1), as a fraction
linkRatio(links, text) == [num |-> 100 * links, den |-> MaxOf({Len(text), 100})]

\* linkRatio > 0.3
TooManyLinks(r) == 10 * r.num > 3 * r.den

\* score -= linkRatio * 100 when the ratio is above 0.3, over the ratio's denominator
Penalised(raw, r) ==
    [num |-> IF TooManyLinks(r) THEN raw * r.den - 100 * r.num ELSE raw * r.den,
     den |-> r.den]

\* the scorer without its floor
ScoreUnfloored(element, text) ==
    Penalised(RawScore(text, element.paragraphs, ToLowerCase(element.className)),
              linkRatio(element.links, text))

\* Math.max(0, score)
Floored(score) == [num |-> MaxOf({0, score.num}), den |-> score.den]

\* GeneralParser.calculateContentScore(element, text)
calculateContentScore(element, text) ==
    Floored(Penalised(RawScore(text, element.paragraphs, ToLowerCase(element.className)),
                      linkRatio(element.links, text)))

\* a > b and a = b on scores
Greater(a, b) == a.num * b.den > b.num * a.den
SameScore(a, b) == a.num * b.den = b.num * a.den

\* this.options.minContentLength || fallback
MinContentLength(options, fallback) ==
    IF options.minContentLength = 0 THEN fallback ELSE options.minContentLength

\* let bestElement = null; let bestScore = 0
NoBest == [bestElement |-> 0, bestScore |-> [num |-> 0, den |-> 1]]

\* the candidate loops compared with >= in place of >
KeepLater(best, el, i, minimum) ==
    IF /\ ~Greater(best.bestScore, calculateContentScore(el, el.textContent))
       /\ Len(el.textContent) >= minimum
    THEN [bestElement |-> i, bestScore |-> calculateContentScore(el, el.textContent)]
    ELSE best

\* one turn of candidates.forEach: el is the i-th element of the document
Keep(best, el, i, minimum) ==
    IF /\ Greater(calculateContentScore(el, el.textContent), best.bestScore)
       /\ Len(el.textContent) >= minimum
    THEN [bestElement |-> i, bestScore |-> calculateContentScore(el, el.textContent)]
    ELSE best

\* candidates.forEach over the elements of the document whose tag is selected,
\* in document order; bestElement is a position in the document, 0 for null
RECURSIVE BestOf(_, _, _, _, _)
BestOf(elements, tags, minimum, i, best) ==
    IF i > Len(elements) THEN best
    ELSE BestOf(elements, tags, minimum, i + 1,
                IF elements[i].tagName \in tags
                THEN Keep(best, elements[i], i, minimum)
                ELSE best)

\* the minimum of each loop when options.minContentLength is 0
HtmlMinimumFallback == 100
TextMinimumFallback == 50

\* doc.querySelectorAll('div, section, article') and ('div, section, article, main')
HtmlCandidateTags == {"div", "section", "article"}
TextCandidateTags == {"div", "section", "article", "main"}

\* class selectors of CONTENT_SELECTORS; its other entries are article, main
\* and [role="main"]
ContentClasses ==
    { <<"a","r","t","i","c","l","e","-","c","o","n","t","e","n","t">>,
      <<"p","o","s","t","-","c","o","n","t","e","n","t">>,
      <<"e","n","t","r","y","-","c","o","n","t","e","n","t">>,
      <<"c","o","n","t","e","n","t">>,
      <<"m","a","i","n","-","c","o","n","t","e","n","t">>,
      <<"s","t","o","r","y","-","c","o","n","t","e","n","t">>,
      <<"a","r","t","i","c","l","e","-","b","o","d","y">>,
      <<"p","o","s","t","-","b","o","d","y">>,
      <<"a","r","t","i","c","l","e","B","o","d","y">>,
      <<"a","r","t","i","c","l","e","C","o","n","t","e","n","t">>,
      <<"t","e","x","t","-","c","o","n","t","e","n","t">>,
      <<"b","o","d","y","-","c","o","n","t","e","n","t">>,
      <<"p","a","g","e","-","c","o","n","t","e","n","t">>,
      <<"s","i","n","g","l","e","-","c","o","n","t","e","n","t">>,
      <<"b","l","o","g","-","c","o","n","t","e","n","t">>,
      <<"n","e","w","s","-","c","o","n","t","e","n","t">> }

\* className holds token as one of its whitespace-separated names
HasClass(className, token) ==
    \E i \in 1..Len(className) :
        /\ MatchAt(className, token, i)
        /\ i = 1 \/ className[i - 1] \in WhiteSpace
        /\ i + Len(token) > Len(className) \/ className[i + Len(token)] \in WhiteSpace

\* the element is what doc.querySelector finds for some entry of CONTENT_SELECTORS
\* (elements carry no role attribute)
MatchesContentSelector(el) ==
    \/ el.tagName \in {"article", "main"}
    \/ \E token \in ContentClasses : HasClass(el.className, token)


-----------------------------------------------------------------------------
(* Documents as trees.  nodes lists the elements in document order, each   *)
(* with its tag, the position of its parent (0 for the document) and the   *)
(* text it holds in front of its child elements; removed is the set of     *)
(* positions taken out of the document so far.  html, head and body come   *)
(* first, as the HTML parser creates them for every input.                 *)

TreeNode(tagName, parent, text) == [tagName |-> tagName, parent |-> parent, text |-> text]

\* a is an ancestor of i
RECURSIVE IsAncestor(_, _, _)
IsAncestor(nodes, a, i) ==
    /\ nodes[i].parent # 0
    /\ nodes[i].parent = a \/ IsAncestor(nodes, a, nodes[i].parent)

\* the positions still in the document
InDocument(doc) == { i \in 1..Len(doc.nodes) : i \notin doc.removed }

\* el.children
children(doc, el) == { j \in InDocument(doc) : doc.nodes[j].parent = el }

\* the texts of the nodes from..to that lie in the subtree of el, in document order
RECURSIVE SubtreeText(_, _, _)
SubtreeText(doc, el, from) ==
    IF from > Len(doc.nodes) THEN <<>>
    ELSE IF from \in InDocument(doc) /\ (from = el \/ IsAncestor(doc.nodes, el, from))
         THEN doc.nodes[from].text \o SubtreeText(doc, el, from + 1)
         ELSE SubtreeText(doc, el, from + 1)

\* el.textContent
textContent(doc, el) == SubtreeText(doc, el, el)

\* el.remove(): the element leaves the document with all it holds
RemoveElement(doc, el) ==
    [doc EXCEPT !.removed = @ \cup {el}
                     \cup { j \in 1..Len(doc.nodes) : IsAncestor(doc.nodes, el, j) }]

\* doc.documentElement and doc.body, 0 for null
documentElement(doc) == IF 1 \in doc.removed THEN 0 ELSE 1
docBody(doc) == IF 3 \in doc.removed THEN 0 ELSE 3

\* the tags removeEmptyElements never removes
SelfClosingTags == {"img", "br", "hr", "input", "meta", "link"}

\* the test without its look at the text
IsChildless(doc, el) ==
    /\ children(doc, el) = {}
    /\ doc.nodes[el].tagName \notin SelfClosingTags

\* the test of removeEmptyElements on one element
IsEmptyElement(doc, el) ==
    /\ children(doc, el) = {}
    /\ Trim(textContent(doc, el)) = <<>>
    /\ doc.nodes[el].tagName \notin SelfClosingTags

\* elements.forEach of one turn of the while loop: list holds the positions
\* that querySelectorAll('*') found when the turn began, in document order
RECURSIVE EmptyElementsTurn(_, _, _)
EmptyElementsTurn(doc, list, k) ==
    IF k > Len(list) THEN doc
    ELSE IF IsEmptyElement(doc, list[k])
         THEN EmptyElementsTurn(RemoveElement(doc, list[k]), list, k + 1)
         ELSE EmptyElementsTurn(doc, list, k + 1)

\* doc.querySelectorAll('*')
AllElements(doc) == SelectSeq([i \in 1..Len(doc.nodes) |-> i], LAMBDA i : i \in InDocument(doc))

\* GeneralParser.removeEmptyElements(doc): turns until one removes nothing
RECURSIVE removeEmptyElements(_)
removeEmptyElements(doc) ==
    IF EmptyElementsTurn(doc, AllElements(doc), 1).removed = doc.removed THEN doc
    ELSE removeEmptyElements(EmptyElementsTurn(doc, AllElements(doc), 1))

\* elements.forEach(el => el.remove()) over the elements with one of the tags
RECURSIVE RemoveTagged(_, _, _)
RemoveTagged(doc, tags, i) ==
    IF i > Len(doc.nodes) THEN doc
    ELSE IF i \in InDocument(doc) /\ doc.nodes[i].tagName \in tags
         THEN RemoveTagged(RemoveElement(doc, i), tags, i + 1)
         ELSE RemoveTagged(doc, tags, i + 1)

\* GeneralParser.cleanDocument on a tree whose elements are html, head, body,
\* div, p and img without attributes, with texts that are no navigation
\* labels: the removals by tag, class, id, style, label and footer find
\* nothing, which leaves the images, when asked for, and the empty elements
cleanTree(doc, options) ==
    removeEmptyElements(IF options.removeImages
                        THEN RemoveTagged(doc, {"img", "picture", "figure"}, 1)
                        ELSE doc)

\* the element at position i as the scorer reads it; a position that has
\* left the document is no candidate of any loop
ScorerView(doc, i) ==
    IF i \notin InDocument(doc)
    THEN [tagName |-> "removed", className |-> <<>>, id |-> <<>>, textContent |-> <<>>,
          paragraphs |-> 0, links |-> 0]
    ELSE [tagName |-> doc.nodes[i].tagName, className |-> <<>>, id |-> <<>>,
          textContent |-> textContent(doc, i),
          paragraphs |-> Cardinality({ j \in InDocument(doc) :
                                         doc.nodes[j].tagName = "p"
                                             /\ IsAncestor(doc.nodes, i, j) }),
          links |-> 0]

ScorerViews(doc) == [i \in 1..Len(doc.nodes) |-> ScorerView(doc, i)]

\* GeneralParser.extractContentWithHtml(doc), by the element whose markup it
\* returns: no element of these trees matches a content selector
extractContentWithHtml(doc, options) ==
    IF BestOf(ScorerViews(doc), HtmlCandidateTags,
              MinContentLength(options, HtmlMinimumFallback), 1, NoBest).bestElement # 0
    THEN [kind |-> "element",
          el |-> BestOf(ScorerViews(doc), HtmlCandidateTags,
                        MinContentLength(options, HtmlMinimumFallback), 1,
                        NoBest).bestElement]
    ELSE IF /\ docBody(doc) # 0
            /\ Len(textContent(doc, docBody(doc)))
                   >= MinContentLength(options, HtmlMinimumFallback)
         THEN [kind |-> "element", el |-> docBody(doc)]
         ELSE [kind |-> "null", el |-> 0]

\* GeneralParser.extractTextFromElement(element): whitespace runs become one
\* space and the ends are trimmed (the texts of these trees hold none of the
\* noise lines it removes)
extractTextFromElement(doc, el) == Trim(CollapseSpaces(textContent(doc, el)))

\* el.innerHTML.length and el.outerHTML.length: <tag>, text, children, </tag>
TagNameLength(tagName) ==
    CASE tagName = "p" -> 1
      [] tagName \in {"div", "img"} -> 3
      [] OTHER -> 4

RECURSIVE InnerHtmlLength(_, _)
OuterHtmlLength(doc, el) ==
    IF doc.nodes[el].tagName \in SelfClosingTags THEN TagNameLength(doc.nodes[el].tagName) + 2
    ELSE 2 * TagNameLength(doc.nodes[el].tagName) + 5 + InnerHtmlLength(doc, el)
InnerHtmlLength(doc, el) ==
    LET RECURSIVE Sum(_)
        Sum(S) == IF S = {} THEN 0
                  ELSE LET j == CHOOSE x \in S : TRUE
                       IN OuterHtmlLength(doc, j) + Sum(S \ {j})
    IN Len(doc.nodes[el].text) + Sum(children(doc, el))

\* strategy 3 of extractContent: one turn of its loop, with the density
\* textLength / htmlLength kept as a fraction (0 when the markup is empty)
DenserOf(doc, el, minimum, best) ==
    IF /\ doc.nodes[el].tagName \in {"div", "section", "article", "main", "p"}
       /\ InnerHtmlLength(doc, el) > 0
       /\ Len(textContent(doc, el)) * best.den > best.num * InnerHtmlLength(doc, el)
       /\ Len(textContent(doc, el)) >= minimum
    THEN [bestElement |-> el, num |-> Len(textContent(doc, el)),
          den |-> InnerHtmlLength(doc, el)]
    ELSE best

RECURSIVE DensestOf(_, _, _, _)
DensestOf(doc, minimum, i, best) ==
    IF i > Len(doc.nodes) THEN best
    ELSE DensestOf(doc, minimum, i + 1,
                   IF i \in InDocument(doc) THEN DenserOf(doc, i, minimum, best) ELSE best)

\* what each strategy of extractContent returns, <<>> standing for null and
\* for the empty string alike (the loop over the strategies passes over both)
Strategy2(doc, options) ==
    IF BestOf(ScorerViews(doc), TextCandidateTags,
              MinContentLength(options, TextMinimumFallback), 1, NoBest).bestElement = 0
    THEN <<>>
    ELSE extractTextFromElement(doc,
             BestOf(ScorerViews(doc), TextCandidateTags,
                    MinContentLength(options, TextMinimumFallback), 1, NoBest).bestElement)

Strategy3(doc, options) ==
    IF DensestOf(doc, MinContentLength(options, TextMinimumFallback), 1,
                 [bestElement |-> 0, num |-> 0, den |-> 1]).bestElement = 0
    THEN <<>>
    ELSE extractTextFromElement(doc,
             DensestOf(doc, MinContentLength(options, TextMinimumFallback), 1,
                       [bestElement |-> 0, num |-> 0, den |-> 1]).bestElement)

\* strategy 5: the text of body when it has the minimum length
Strategy5(doc, options) ==
    IF /\ docBody(doc) # 0
       /\ Len(extractTextFromElement(doc, docBody(doc)))
              >= MinContentLength(options, TextMinimumFallback)
    THEN extractTextFromElement(doc, docBody(doc))
    ELSE <<>>

\* strategy 6: the raw text of body, trimmed, against a minimum of its own
Strategy6(doc, options) ==
    IF /\ docBody(doc) # 0
       /\ Len(Trim(textContent(doc, docBody(doc)))) >= MinContentLength(options, 20)
    THEN Trim(CollapseSpaces(Trim(textContent(doc, docBody(doc)))))
    ELSE <<>>

NoContentFound == <<"N","o"," ","c","o","n","t","e","n","t"," ","f","o","u","n","d">>

\* doc.body?.textContent?.trim() || "No content found"
UltimateFallback(doc) ==
    IF docBody(doc) # 0 /\ Trim(textContent(doc, docBody(doc))) # <<>>
    THEN Trim(textContent(doc, docBody(doc)))
    ELSE NoContentFound

\* the first of the texts that is not blank
FirstUsable(texts, last) ==
    IF \E k \in 1..Len(texts) : Trim(texts[k]) # <<>>
    THEN texts[CHOOSE k \in 1..Len(texts) :
                   Trim(texts[k]) # <<>> /\ \A j \in 1..(k - 1) : Trim(texts[j]) = <<>>]
    ELSE last

\* GeneralParser.extractContent(doc): strategies 1 and 4 find nothing in
\* these trees, which hold no element a content selector matches and no p
\* of more than 30 characters
extractContent(doc, options) ==
    FirstUsable(<< Strategy2(doc, options), Strategy3(doc, options),
                   Strategy5(doc, options), Strategy6(doc, options) >>,
                UltimateFallback(doc))

\* GeneralParser.countWords(text)
countWords(text) ==
    Cardinality({ i \in 1..Len(text) :
                    text[i] \notin WhiteSpace /\ (i = 1 \/ text[i - 1] \in WhiteSpace) })

\* Math.ceil(wordCount / 200)
WordsPerMinute == 200
readingTime(wordCount) == (wordCount + WordsPerMinute - 1) \div WordsPerMinute

\* the ParsedContent of the branch that extracts: content is the element
\* whose markup extractContentWithHtml returned, the metrics are those of
\* the text extractContent returned
Extracted(content, text) ==
    [threw |-> "null", content |-> content, wordCount |-> countWords(text),
     readingTime |-> readingTime(countWords(text))]

\* the ParsedContent of the cleanHtmlOnly branch, which reads
\* doc.documentElement.outerHTML first: content is doc.body?.textContent || ''
CleanedOnly(doc) ==
    IF documentElement(doc) = 0
    THEN [threw |-> "TypeError", content |-> [kind |-> "null", el |-> 0], wordCount |-> 0,
          readingTime |-> 0]
    ELSE [threw |-> "null",
          content |-> [kind |-> "text", el |-> docBody(doc)],
          wordCount |-> countWords(IF docBody(doc) = 0 THEN <<>>
                                   ELSE textContent(doc, docBody(doc))),
          readingTime |-> readingTime(countWords(IF docBody(doc) = 0 THEN <<>>
                                                 ELSE textContent(doc, docBody(doc))))]

\* GeneralParser.parse(html) after the test of its argument, doc being the
\* document the HTML parser made of html
ParsedTree(doc, options) ==
    IF options.cleanHtmlOnly THEN CleanedOnly(cleanTree(doc, options))
    ELSE Extracted(extractContentWithHtml(cleanTree(doc, options), options),
                   extractContent(cleanTree(doc, options), options))

\* GeneralParser.parse(html): html is "empty" for '', "other" for a value that
\* is no string, "page" for a non-empty string
parseTree(html, doc, options) ==
    IF html # "page"
    THEN [threw |-> "Invalid HTML content provided", content |-> [kind |-> "null", el |-> 0],
          wordCount |-> 0, readingTime |-> 0]
    ELSE ParsedTree(doc, options)
-----------------------------------------------------------------------------
(* The state machine.  A behaviour follows one request: either the caller   *)
(* constructs one NewsExtract and asks it for the API response, or it calls *)
(* the view, which does both internally.                                    *)

\* no Compare instance yet; made keeps the instance as the constructor left it
NoCompare ==
    [built |-> FALSE, inputs |-> <<>>, inst |-> EmptyCompare, made |-> EmptyCompare,
     evals |-> 0, word |-> <<>>, result |-> <<>>]

NoCall == [method |-> "none", input |-> <<>>, value |-> <<>>, pass |-> 0]

NoReturn ==
    [method |-> "none", article |-> NullArticle, content |-> ContentNull,
     value |-> Null, parser |-> "null"]

Init ==
    /\ tzOffset \in TzOffsets
    /\ obj = NoObject
    /\ response = NoPayload
    /\ view = NoView
    /\ ret = NoReturn
    /\ gp = NoParse
    /\ cmp = NoCompare
    /\ call = NoCall

\* new NewsExtract(url, source, false, "en", 60, fqdn)
Idle == obj.state = "none" /\ ~view.called

Construct ==
    /\ Idle
    /\ \E a \in Inputs :
        /\ obj' = NewsExtractNew(a.url, a.source, a.fqdn, tzOffset)
        /\ response' = NoPayload
        /\ view' = NoView
        /\ UNCHANGED <<tzOffset, ret, gp, cmp, call>>

\* obj.get_scraper_api_response()
GetResponse ==
    /\ obj.state = "built"
    /\ response = NoPayload
    /\ response' = get_scraper_api_response(obj)
    /\ UNCHANGED <<tzOffset, obj, view, ret, gp, cmp, call>>

\* parserExtensionView(body)
CallView ==
    /\ Idle
    /\ \E body \in Bodies :
        /\ view' = parserExtensionView(body, tzOffset)
        /\ obj' = NoObject
        /\ response' = NoPayload
        /\ UNCHANGED <<tzOffset, ret, gp, cmp, call>>

Next == Construct \/ GetResponse \/ CallView

Spec == Init /\ [][Next]_vars

-----------------------------------------------------------------------------
(* Properties of the request: status, invalid input, title, authors, date *)

NonEmpty(text) == text # Null /\ text # <<>>

\* the status rule for one status, error text and content
StatusRule(status, error, content) ==
    /\ status = "Done" <=> NonEmpty(content)
    /\ status # "Done" => status = "Error" /\ error = "No Content"
    /\ error = "null" <=> status = "Done"

\* C1: for every NewsExtract that finished scraping, the response has
\* article_status "Done" exactly when article_content is neither null nor
\* empty, and otherwise "Error" with article_error_status "No Content";
\* article_error_status is null exactly when the status is "Done"; the
\* view's status and error_message obey the same rule.
C1_StatusFollowsContent ==
    /\ response.full =>
           StatusRule(response.article_status, response.article_error_status,
                      response.article_content)
    /\ (view.called /\ view.threw = "null" /\ view.data[1].full) =>
           /\ StatusRule(view.status, view.error_message, view.data[1].article_content)
           /\ view.status = view.data[1].article_status

\* a finished scrape whose content is the empty string, reported as an error
C1_Witness ==
    /\ response.full
    /\ response.article_content = <<>>
    /\ response.article_status = "Error"
    /\ response.article_error_status = "No Content"

BadUrl(url) == ~IsString(url) \/ url = <<>>

\* what the view answers when the constructor rejects its arguments
ViewReports(message) ==
    /\ view.threw = "null"
    /\ view.status = "Error"
    /\ Len(view.data) = 1
    /\ view.data[1].article_status = "Error"
    /\ ~view.data[1].full
    /\ view.error_message = message

\* C2: the constructor fails with "Invalid URL passed" for an empty or
\* non-string url and with "No Page Source passed" for an empty page source,
\* before any cleaning or extraction step runs; the view called with such a
\* body does not throw but answers status "Error", one payload whose
\* article_status is "Error", and that message; the view throws only for a
\* missing body, with "Invalid Request Parameter".
C2_InvalidInputReported ==
    /\ obj.state # "none" =>
           /\ BadUrl(obj.given.url) =>
                  obj.state = "thrown" /\ obj.error = "Invalid URL passed" /\ obj.steps = <<>>
           /\ (~BadUrl(obj.given.url) /\ obj.given.enc = "missing") =>
                  obj.state = "thrown" /\ obj.error = "No Page Source passed"
                      /\ obj.steps = <<>>
           /\ obj.state = "thrown" => BadUrl(obj.given.url) \/ obj.given.enc = "missing"
    /\ view.called =>
           /\ view.threw # "null" <=> view.body.null
           /\ view.body.null => view.threw = "Invalid Request Parameter"
           /\ (~view.body.null /\ BadUrl(view.body.url)) => ViewReports("Invalid URL passed")
           /\ (~view.body.null /\ ~BadUrl(view.body.url)
                  /\ view.body.raw_content.enc = "missing") =>
                  ViewReports("No Page Source passed")

\* the view called with a usable url and no page source
C2_Witness ==
    /\ view.called
    /\ ~view.body.null
    /\ view.body.url = UrlPlain
    /\ view.body.raw_content.enc = "missing"
    /\ view.error_message = "No Page Source passed"

\* the metadata published-time of the built instance's page, parsed
MetaDate ==
    IF obj.page.dom /\ obj.page.metaPublished.kind \in {"stamp", "garbage"}
    THEN DateParseStamp(obj.page.metaPublished)
    ELSE InvalidDate

UrlDate == extract_date_via_url(obj.url, tzOffset)

Jan6 == [null |-> FALSE, t |-> DaysFromCivil(2024, 1, 6) * 1440]

\* C3: when the page metadata holds a parseable published-time and the URL
\* yields a date, the publish date is the URL-derived date if the two dates
\* fall on different UTC calendar days (the first 10 characters of their ISO
\* strings differ) and the metadata date if they fall on the same day;
\* metadata 2024-01-05T00:00:00Z with 2024-01-06 in the URL gives the
\* URL-derived date.
C3_DateConflictRule ==
    (obj.state = "built" /\ MetaDate.ok /\ ~UrlDate.null) =>
        /\ (UrlDate.t \div 1440 # MetaDate.t \div 1440) => obj.publish_date = UrlDate
        /\ (UrlDate.t \div 1440 = MetaDate.t \div 1440) =>
               obj.publish_date = [null |-> FALSE, t |-> MetaDate.t]
        /\ (obj.url = UrlDash /\ obj.page.metaPublished = StampJan5) =>
               obj.publish_date = Jan6

\* the example of the rule: metadata of 5 January, 6 January in the URL
C3_Witness ==
    /\ obj.state = "built"
    /\ obj.url = UrlDash
    /\ obj.page.metaPublished = StampJan5
    /\ obj.publish_date = Jan6

\* the text of the element the title is read from, or Null
ExtractedTitle == IF obj.page.dom THEN TitleElement(obj.page) ELSE Null

Blocklisted(text) ==
    \E k \in 1..Len(invalid_title_keys) :
        Contains(ToLowerCase(text), ToLowerCase(invalid_title_keys[k]))

\* C7: an extracted title that contains a blocklisted substring, letter case
\* aside, gives a null title; a page titled "404 Page Not Found" has
\* article_title null; a non-empty title without a blocklisted substring is
\* returned unchanged apart from trimming.
C7_TitleBlocklist ==
    (obj.state = "built" /\ ExtractedTitle # Null) =>
        /\ Blocklisted(ExtractedTitle) => obj.title = Null
        /\ (~Blocklisted(ExtractedTitle) /\ Trim(ExtractedTitle) # <<>>) =>
               obj.title = Trim(ExtractedTitle)
        /\ (response.full /\ ExtractedTitle = TitleNotFound) =>
               response.article_title = Null

\* the response for a page titled "404 Page Not Found"
C7_Witness ==
    /\ response.full
    /\ obj.state = "built"
    /\ ExtractedTitle = TitleNotFound
    /\ response.article_title = Null

\* C8: every title string a title extractor returns is, after trimming,
\* longer than 3 and shorter than 300 characters.
C8_TitleLength ==
    /\ (obj.state = "built" /\ obj.title # Null) =>
           Len(Trim(obj.title)) > 3 /\ Len(Trim(obj.title)) < 300
    /\ (gp.called /\ gp.threw = "null" /\ gp.title # Null) =>
           Len(Trim(gp.title)) > 3 /\ Len(Trim(gp.title)) < 300

\* NewsExtract returning the three-character title of a page
C8_Witness ==
    /\ obj.state = "built"
    /\ ExtractedTitle = TitleThree
    /\ obj.title = TitleThree

Blank(text) == text = Null \/ Trim(text) = <<>>

\* no element of the page holds a title, an author, a date
NoTitleSource(page) ==
    ~page.dom \/ (Blank(page.titleEl) /\ Blank(page.h1El) /\ Blank(page.articleTitleEl))
NoAuthorSource(page) ==
    ~page.dom \/ \A i \in 1..Len(page.authorEls) :
                     Blank(page.authorEls[i].text) /\ Blank(page.authorEls[i].content)
NoDateSource(page) ==
    /\ ~MetaDate.ok
    /\ ~page.dom \/ \A i \in 1..Len(page.dateEls) : DateCallback(page.dateEls[i]).null
    /\ UrlDate.null

\* the instance built from the same arguments with one field of the page changed
Rebuilt(page) == NewsExtractNew(obj.url, Raw(page), obj.fqdn, tzOffset)
SameBut(o, fields) ==
    /\ o.state = "built"
    /\ "title" \in fields \/ o.title = obj.title
    /\ "authors" \in fields \/ o.authors = obj.authors
    /\ "publish_date" \in fields \/ o.publish_date = obj.publish_date
    /\ o.images = obj.images
    /\ o.content = obj.content
    /\ o.parser = obj.parser

FirstParseable(els) ==
    IF \E i \in 1..Len(els) : ~DateCallback(els[i]).null
    THEN DateCallback(els[CHOOSE i \in 1..Len(els) :
                              /\ ~DateCallback(els[i]).null
                              /\ \A j \in 1..(i - 1) : DateCallback(els[j]).null])
    ELSE IsoNull

\* C10: without a parseable metadata published-time the publish date is the
\* first parseable date of the selector scan, otherwise the date in the URL
\* path if the URL matches one of the date patterns, and null only when all
\* three sources fail.
C10_PublishDateFallback ==
    (obj.state = "built" /\ obj.page.dom /\ ~MetaDate.ok) =>
        obj.publish_date =
            IF ~FirstParseable(obj.page.dateEls).null
            THEN FirstParseable(obj.page.dateEls)
            ELSE UrlDate

\* a page whose <time> element holds a date, and no publish date for it
C10_Witness ==
    /\ obj.state = "built"
    /\ obj.page.dom
    /\ ~MetaDate.ok
    /\ ~FirstParseable(obj.page.dateEls).null
    /\ obj.publish_date = IsoNull

\* the page holds none of the elements content is read from: no p, article,
\* .content, .article-content or .post-content element, and no container of
\* the site the request names
NoContainer(page, fqdn) ==
    \/ ~page.dom
    \/ page.contentEls = <<>> /\ fqdn_selectors(page, fqdn) = Null

SelectorKey(hostname) ==
    IF hostname = <<"s","u","n","s","t","a","r",".","c","o","m",".","p","h">> THEN "sunstar.com.ph" ELSE "none"

\* the instance get_article_extension constructs for the body of the view
ScrapedFor(body) == NewsExtractNew(body.url, body.raw_content, "undefined", tzOffset)

\* the body names a site that has a selector and its page holds the
\* selected container with enough text
HasSelectedContainer(body) ==
    /\ ~body.null
    /\ body.raw_content.enc = "raw"
    /\ Truthy(fqdn_selectors(body.raw_content.page, SelectorKey(get_fqdn(body.url))))

\* C23: parserExtensionView applies the content selector registered for the
\* domain of the article URL as the first content strategy: for a URL whose
\* host has a selector and a page that holds the selected container with
\* enough text, the content returned is the text of that container and the
\* parser used is "Selector Parser".
C23_SelectorByDomain ==
    (view.called /\ HasSelectedContainer(view.body)) =>
        /\ view.threw = "null"
        /\ view.data[1].article_content =
               fqdn_selectors(view.body.raw_content.page, SelectorKey(get_fqdn(view.body.url)))
        /\ ScrapedFor(view.body).parser = "Selector Parser"

\* a sunstar.com.ph article whose page holds the container and a block of
\* other text: the instance is built without fqdn, the selector is passed
\* over and the content is that of the general extractor
C23_Witness ==
    /\ view.called
    /\ view.body.url = UrlSunstar
    /\ view.body.raw_content = Raw(WithSite(BasePage, "sunstar", TextLines))
    /\ HasSelectedContainer(view.body)
    /\ ScrapedFor(view.body).fqdn = "undefined"
    /\ ScrapedFor(view.body).parser = "NewsPaper3k Parser"
    /\ view.status = "Done"
    /\ view.data[1].article_content #
           fqdn_selectors(view.body.raw_content.page, "sunstar.com.ph")

-----------------------------------------------------------------------------
(* Methods called on a constructed instance.  A behaviour starts from an    *)
(* instance and makes one call.                                             *)

MaxImages == 3

ImageItems == {ImagePhoto, ImageLogo, ImageFavicon, ImageRelative, ImageUpper, NotAString}

\* the values article.top_image takes: a list, one string, or nothing
TopImages ==
    { [isArray |-> TRUE, items |-> l] :
        l \in UNION { [1..k -> ImageItems] : k \in 0..MaxImages } } \cup
    { [isArray |-> FALSE, items |-> <<x>>] : x \in {<<>>, ImagePhoto, ImageLogo} }

ArticleWith(top_image, text) ==
    [NullArticle EXCEPT !.null = FALSE, !.top_image = top_image, !.text = text]

ImageArticles == {NullArticle} \cup { ArticleWith(t, <<>>) : t \in TopImages }

TextArticles ==
    {NullArticle} \cup
    { ArticleWith(NullArticle.top_image, t) : t \in {Null, <<>>, <<" ">>, TextLong} }

Contents ==
    {ContentNull, ContentEmpty} \cup
    { ContentObject(t) : t \in {Null, <<>>, TextShort, TextLongB} }

\* the fqdn fqdn_selectors knows a site by
SiteFqdn(name) ==
    CASE name = "sunstar" -> "sunstar.com.ph"
      [] name = "showbizportal" -> "showbizportal.net"
      [] name = "therebelsweetheart" -> "therebelsweetheart.com"
      [] name = "lifeiskulayful" -> "lifeiskulayful.com"
      [] OTHER -> "bilyonaryo.com"

\* the instances the calls are made on: one per site container and text,
\* built with the fqdn of that site, and a page without any container
MethodInputs ==
    { Args(UrlPlain, Raw(WithSite(BasePage, n, v)), SiteFqdn(n)) :
        n \in SiteNames, v \in SiteTexts } \cup
    { Args(UrlPlain, Raw(BasePage), f) : f \in {"undefined", "", "philstar.com", "sunstar.com.ph"} }

InitMethods ==
    /\ tzOffset = 0
    /\ obj \in { NewsExtractNew(a.url, a.source, a.fqdn, 0) : a \in MethodInputs }
    /\ response = NoPayload
    /\ view = NoView
    /\ ret = NoReturn
    /\ gp = NoParse
    /\ cmp = NoCompare
    /\ call = NoCall

\* obj.__get_images(article, clean_html)
CallGetImages ==
    /\ ret.method = "none"
    /\ \E article \in ImageArticles :
        ret' = [NoReturn EXCEPT !.method = "__get_images", !.article = article,
                                !.value = get_images(article)]
    /\ UNCHANGED <<tzOffset, obj, response, view, gp, cmp, call>>

\* what the call leaves in ret and in this.parser
ContentCall(content, article, chosen) ==
    /\ ret' = [method |-> "__get_and_validate_content_parser", article |-> article,
               content |-> content, value |-> chosen.value, parser |-> chosen.parser]
    /\ obj' = [obj EXCEPT !.parser = chosen.parser]

\* obj.__get_and_validate_content_parser(content, article, clean_html)
CallGetAndValidateContentParser ==
    /\ ret.method = "none"
    /\ \E content \in Contents, article \in TextArticles :
        ContentCall(content, article,
                    get_and_validate_content_parser(content, article, obj.page, obj.fqdn))
    /\ UNCHANGED <<tzOffset, response, view, gp, cmp, call>>

NextMethods == CallGetImages \/ CallGetAndValidateContentParser

SpecMethods == InitMethods /\ [][NextMethods]_vars

-----------------------------------------------------------------------------
(* Properties of the method calls: images, content *)

\* the top-image URLs the call was given: the list, or the one string
GivenImages ==
    IF ret.article.null THEN <<>>
    ELSE IF ret.article.top_image.isArray THEN ret.article.top_image.items
    ELSE IF ret.article.top_image.items[1] = <<>> THEN <<>>
    ELSE ret.article.top_image.items

StartsWithHttp(image) ==
    /\ image # NotAString
    /\ Len(image) >= 4
    /\ SubSeq(image, 1, 4) = <<"h", "t", "t", "p">>

LogoLike(image) ==
    \E w \in { <<"l","o","g","o">>, <<"f","a","v","i","c","o","n">>,
               <<"i","c","o","n">>, <<"p","d","f">> } :
        Contains(ToLowerCase(image), w)

Surviving == SelectSeq(GivenImages, StartsWithHttp)

\* C4: __get_images keeps the top-image URLs that start with http; when the
\* first of them matches logo|favicon|icon|pdf, letter case aside, the result
\* is the empty list, and a match at a later position leaves the list as it
\* is; the result is a list, never null; ["https://cdn.x/logo.png",
\* "https://cdn.x/photo.jpg"] gives [].
C4_ImageRule ==
    ret.method = "__get_images" =>
        /\ ret.value # Null /\ ret.value # NullList
        /\ (Surviving # <<>> /\ LogoLike(Surviving[1])) => ret.value = <<>>
        /\ ~(Surviving # <<>> /\ LogoLike(Surviving[1])) => ret.value = Surviving
        /\ GivenImages = <<ImageLogo, ImagePhoto>> => ret.value = <<>>

\* a logo after a photo stays, with the photo
C4_Witness ==
    /\ ret.method = "__get_images"
    /\ GivenImages = <<ImageRelative, ImagePhoto, ImageLogo>>
    /\ ret.value = <<ImagePhoto, ImageLogo>>

\* the sources of the content chain, in order, and the parser each one names
ChainSources ==
    LET selector == IF obj.fqdn \in {"undefined", ""} THEN Null
                    ELSE fqdn_selectors(obj.page, obj.fqdn)
    IN << selector,
          IF ret.article.null THEN Null ELSE ret.article.text,
          IF ret.content.kind = "object" THEN ret.content.text ELSE Null,
          selector >>
ChainParsers ==
    <<"Selector Parser", "NewsPaper3k Parser", "Content Parser", "Selector Parser">>

FirstYielding == { i \in 1..4 : NonEmpty(ChainSources[i])
                                /\ \A j \in 1..(i - 1) : ~NonEmpty(ChainSources[j]) }

\* C5: __get_and_validate_content_parser returns the first non-null,
\* non-empty value among the per-site selector result, the article text,
\* the secondary content text and the per-site selector retried, and sets
\* parser to the name of that source; when every source fails it returns
\* null with parser null.
C5_ContentFallbackChain ==
    ret.method = "__get_and_validate_content_parser" =>
        /\ \A i \in FirstYielding :
               /\ ret.value = ChainSources[i]
               /\ ret.parser = ChainParsers[i]
               /\ obj.parser = ChainParsers[i]
        /\ FirstYielding = {} =>
               ret.value = Null /\ ret.parser = "null" /\ obj.parser = "null"

\* every source empty, the selector's container present: the call answers
\* the empty string and names the selector
C5_Witness ==
    /\ ret.method = "__get_and_validate_content_parser"
    /\ FirstYielding = {}
    /\ ret.value = <<>>
    /\ ret.parser = "Selector Parser"

-----------------------------------------------------------------------------
(* GeneralParser.parse: the documents of the model and the call *)

TitleOg ==    \* "Open graph headline"
    <<"O","p","e","n"," ","g","r","a","p","h"," ","h","e","a","d","l","i","n","e">>
TitleTwitter ==    \* "Card headline"
    <<"C","a","r","d"," ","h","e","a","d","l","i","n","e">>
TitleJson ==    \* "Structured headline"
    <<"S","t","r","u","c","t","u","r","e","d"," ","h","e","a","d","l","i","n","e">>
TitleTagText ==    \* "Site story | Site name"
    <<"S","i","t","e"," ","s","t","o","r","y"," ","|"," ","S","i","t","e"," ","n","a","m","e">>
TitleTagDash ==    \* "ab - cd"
    <<"a","b"," ","-"," ","c","d">>
TitleSecond ==    \* "Second heading"
    <<"S","e","c","o","n","d"," ","h","e","a","d","i","n","g">>
TitleEntry ==    \* "  Entry title here  "
    <<" "," ","E","n","t","r","y"," ","t","i","t","l","e"," ","h","e","r","e"," "," ">>
TitleShared ==    \* "Shared title"
    <<"S","h","a","r","e","d"," ","t","i","t","l","e">>

Element(tag, class, boxTag, boxClass, text) ==
    [tag |-> tag, class |-> class, boxTag |-> boxTag, boxClass |-> boxClass, text |-> text]
Heading(tag, text) == Element(tag, <<>>, "body", <<>>, text)

ElementLists ==
    { <<>>,
      <<Heading("h1", TitleHeadline)>>,
      <<Element("h1", <<>>, "div", <<"a","r","t","i","c","l","e","-","h","e","a","d","e","r">>, TitleHeadline), Heading("h2", TitleSecond)>>,
      <<Element("h1", <<"t","i","t","l","e">>, "body", <<>>, <<" ", "\n">>), Heading("h2", TitleSecond)>>,
      <<Heading("h1", TitleThree), Heading("h1", Rep("a", 200)),
        Element("div", <<"p","a","g","e","-","t","i","t","l","e">>, "body", <<>>, TitleClass)>>,
      <<Element("div", <<"t","i","t","l","e">>, "body", <<>>, <<"H","o","m","e">>), Heading("h3", TitleFour)>>,
      <<Element("h1", <<"e","n","t","r","y","-","t","i","t","l","e">>, "article", <<>>, TitleEntry)>>,
      <<Element("h1", <<>>, "header", <<>>, TitleHeadline),
        Element("h1", <<>>, "article", <<>>, Rep("a", 300)), Heading("h2", Rep("a", 299))>>,
      <<Heading("h1", Rep("a", 10)), Heading("h1", Rep("a", 11))>>,
      <<Element("h2", <<"p","o","s","t","-","t","i","t","l","e">>, "div", <<"s","h","a","r","e","-","b","o","x">>, TitleShared),
        Element("h3", <<>>, "section", <<>>, TextDigits)>>,
      <<Heading("h1", Rep("a", 199))>> }

Documents ==
    { [ogTitle |-> og, twitterTitle |-> tw, jsonLd |-> js, titleTag |-> tt, elements |-> es] :
        og \in {Null, <<>>, TitleOg, Rep("a", 300)},
        tw \in {Null, TitleTwitter},
        js \in {NoJsonLd, BadJsonLd, JsonLd(TitleJson, Null, Null), JsonLd(<<>>, Null, TitleThree)},
        tt \in {Null, TitleTagText, TitleTagDash, TitleThree},
        es \in ElementLists }

InitGeneralParser ==
    /\ tzOffset = 0
    /\ obj = NoObject
    /\ response = NoPayload
    /\ view = NoView
    /\ ret = NoReturn
    /\ gp = NoParse
    /\ cmp = NoCompare
    /\ call = NoCall

\* new GeneralParser().parse(html), for a document
ParseDocument ==
    /\ ~gp.called
    /\ \E doc \in Documents : gp' = parse("page", doc)
    /\ UNCHANGED <<tzOffset, obj, response, view, ret, cmp, call>>

\* new GeneralParser().parse(html), for an empty or non-string html
ParseNothing ==
    /\ ~gp.called
    /\ gp' = parse("missing", <<>>)
    /\ UNCHANGED <<tzOffset, obj, response, view, ret, cmp, call>>

NextGeneralParser == ParseDocument \/ ParseNothing

SpecGeneralParser == InitGeneralParser /\ [][NextGeneralParser]_vars

\* C6: the title parse returns is the value of the first strategy, in the
\* order og:title, twitter:title, JSON-LD, article heading selectors, first
\* h1 of length 10 to 200, <title> before a separator, title-class selector,
\* any heading, whose value passes validation; a page with a valid og:title
\* meta tag gets exactly that value, whatever headings it holds.
C6_TitleFallbackChain ==
    (gp.called /\ gp.threw = "null") =>
        /\ gp.title = extractTitle(gp.doc)
        /\ ValidTitle(gp.doc.ogTitle) => gp.title = gp.doc.ogTitle

\* a page with a valid og:title and a heading: the heading is the title
C6_Witness ==
    /\ gp.called
    /\ gp.doc.ogTitle = TitleOg
    /\ gp.doc.elements = <<Heading("h1", TitleHeadline)>>
    /\ gp.title = TitleHeadline


-----------------------------------------------------------------------------
(* Compare: a vocabulary is indexed once and words are looked up in it      *)

WordAuthor == <<"A","U","T","H","O","R">>
WordAuthorMixed == <<"A","u","t","h","o","r">>
WordAuthorLower == <<"a","u","t","h","o","r">>
WordAuthors == <<"a","u","t","h","o","r","s">>
WordAuthorship == <<"A","U","T","H","O","R","S","H","I","P">>
WordByline == <<"B","Y","L","I","N","E">>
WordSpaceA == <<" ","a">>
WordSpace == <<" ">>
WordTriple == <<"a","a","a">>
WordQuad == <<"a","a","a","a">>
\* runs of one letter: 98 letters have 100 windows, 33 letters have 35
WordRun98 == Rep("x", 98)
WordRun47 == Rep("x", 47)
WordRun33 == Rep("x", 33)
WordRun15 == Rep("x", 15)

Vocabularies ==
    { <<>>, <<WordAuthor, WordByline>>, <<WordAuthor, WordAuthorship>>,
      <<WordAuthorship, WordAuthor>>,
      <<WordAuthor, <<>>, WordAuthor, Null, WordAuthorMixed>>,
      <<WordRun98>>, <<WordRun33, WordAuthor>>, <<WordSpaceA, WordAuthor>>,
      <<WordSpace>>, <<WordTriple, WordByline>> }

Candidates ==
    { <<>>, <<" ">>, <<"\n">>, <<" ", " ">>, WordAuthor, WordAuthorMixed, WordAuthorLower,
      WordAuthors, WordAuthorship, WordByline, WordSpaceA, WordTriple, WordQuad,
      WordRun98, WordRun47, WordRun33, WordRun15 }

MaxEvals == 2

InitCompare ==
    /\ tzOffset = 0
    /\ obj = NoObject
    /\ response = NoPayload
    /\ view = NoView
    /\ ret = NoReturn
    /\ gp = NoParse
    /\ cmp = NoCompare
    /\ call = NoCall

\* new Compare(words_list)
CompareConstruct ==
    /\ ~cmp.built
    /\ \E words_list \in Vocabularies :
        cmp' = [NoCompare EXCEPT !.built = TRUE, !.inputs = words_list,
                                 !.inst = CompareNew(words_list),
                                 !.made = CompareNew(words_list)]
    /\ UNCHANGED <<tzOffset, obj, response, view, ret, gp, call>>

\* what one eval leaves behind
Evaluated(word, answer) ==
    cmp' = [cmp EXCEPT !.inst = answer.inst, !.result = answer.result,
                       !.word = word, !.evals = @ + 1]

\* cmp.eval(word)
CompareEval ==
    /\ cmp.built
    /\ cmp.evals < MaxEvals
    /\ \E word \in Candidates : Evaluated(word, eval(cmp.inst, word))
    /\ UNCHANGED <<tzOffset, obj, response, view, ret, gp, call>>

NextCompare == CompareConstruct \/ CompareEval

SpecCompare == InitCompare /\ [][NextCompare]_vars


\* the 3-character windows of the upper-cased word with two spaces on each
\* side, in order and as a set
WindowsIn(padded) == [k \in 1..(Len(padded) - 2) |-> SubSeq(padded, k, k + 2)]
Windows(word) == WindowsIn(ToUpperCase(<<" ", " ">> \o word \o <<" ", " ">>))
Listed(windows, i, trigrams) ==
    \A k \in 1..Len(windows) :
        windows[k] \in DOMAIN trigrams /\ InSeq(i - 1, trigrams[windows[k]])

\* C12: after construction, for the stored word at index i and every
\* 3-character window t of the upper-cased word padded with two spaces on
\* each side, trigrams[t] contains i, and word_trigram_count[i] is the
\* number of those windows.
C12_TrigramRoundTrip ==
    cmp.built =>
        /\ \A w \in 1..Len(cmp.inputs) :
               (cmp.inputs[w] # Null /\ cmp.inputs[w] # <<>>) =>
                   InSeq(cmp.inputs[w], cmp.inst.words)
        /\ Len(cmp.inst.word_trigram_count) = Len(cmp.inst.words)
        /\ \A i \in 1..Len(cmp.inst.words) :
               /\ cmp.inst.word_trigram_count[i] = Len(Windows(cmp.inst.words[i]))
               /\ Listed(Windows(cmp.inst.words[i]), i, cmp.inst.trigrams)

\* a vocabulary with a repeated, an empty and a null entry: two words stored,
\* both listed under the padding window "  A"
C12_Witness ==
    /\ cmp.built
    /\ cmp.inputs = <<WordAuthor, <<>>, WordAuthor, Null, WordAuthorMixed>>
    /\ cmp.inst.words = <<WordAuthor, WordAuthorMixed>>
    /\ cmp.inst.trigrams[<<" ", " ", "A">>] = <<0, 1>>
    /\ cmp.inst.word_trigram_count = <<8, 8>>

\* the entries of the last result that are for the word at position i
EntriesFor(i) ==
    SelectSeq(cmp.result, LAMBDA e : e.word = cmp.inst.words[i])

\* C13: for every word w of the vocabulary, eval(w), in whatever letter
\* case w is given, returns an entry for w whose matches are w's trigram
\* count and whose similarity is 100%.
C13_ExactMatch ==
    (cmp.built /\ cmp.evals > 0) =>
        \A i \in 1..Len(cmp.inst.words) :
            ToUpperCase(cmp.inst.words[i]) = ToUpperCase(cmp.word) =>
                \E k \in 1..Len(cmp.result) :
                    /\ cmp.result[k].word = cmp.inst.words[i]
                    /\ cmp.result[k].matches = cmp.inst.word_trigram_count[i]
                    /\ cmp.result[k].similarity = 100

\* "author" looked up among AUTHOR and BYLINE
C13_Witness ==
    /\ cmp.built
    /\ cmp.inst.words = <<WordAuthor, WordByline>>
    /\ cmp.word = WordAuthorLower
    /\ cmp.result = <<[word |-> WordAuthor, matches |-> 8, similarity |-> 100]>>

\* the windows of the last candidate that are windows of the word at position i
Shared(candidate, windows) ==
    Cardinality({ k \in 1..Len(candidate) : InSeq(candidate[k], windows) })
SharedWindows(i) == Shared(Windows(cmp.word), Windows(cmp.inst.words[i]))

\* matches / trigram_count * 100, rounded to the nearest integer
RoundedPercent(i) ==
    (200 * SharedWindows(i) + cmp.inst.word_trigram_count[i])
        \div (2 * cmp.inst.word_trigram_count[i])

\* C14 (as the code has it): eval returns an entry for a vocabulary word
\* exactly when matches / trigram_count * 100, before rounding, is at least
\* 49; every word has at most one entry, whose matches are the candidate's
\* windows found among the word's and whose similarity is that percentage
\* rounded to the nearest integer.
C14_ThresholdOnPercentage ==
    (cmp.built /\ cmp.evals > 0) =>
        \A i \in 1..Len(cmp.inst.words) :
            /\ Len(EntriesFor(i)) > 0 <=>
                   100 * SharedWindows(i) >= 49 * cmp.inst.word_trigram_count[i]
            /\ Len(EntriesFor(i)) <= 1
            /\ \A k \in 1..Len(EntriesFor(i)) :
                   /\ EntriesFor(i)[k].similarity = RoundedPercent(i)
                   /\ EntriesFor(i)[k].matches = SharedWindows(i)
            /\ (cmp.inst.words[i] = WordRun98 /\ cmp.word = WordRun47) =>
                   EntriesFor(i) = <<[word |-> WordRun98, matches |-> 49, similarity |-> 49]>>

\* C14 as stated: eval returns an entry for a vocabulary word exactly when its
\* similarity, matches / trigram_count * 100 rounded to the nearest integer,
\* is at least 49, and the similarity reported is that rounded value.
C14_InclusionThreshold ==
    (cmp.built /\ cmp.evals > 0) =>
        \A i \in 1..Len(cmp.inst.words) :
            /\ Len(EntriesFor(i)) > 0 <=> RoundedPercent(i) >= 49
            /\ \A k \in 1..Len(EntriesFor(i)) :
                   /\ EntriesFor(i)[k].similarity = RoundedPercent(i)
                   /\ EntriesFor(i)[k].matches = SharedWindows(i)

\* 17 of the 35 windows of a word matched: 48.57%, which rounds to 49, and
\* no entry for the word
C14_Witness ==
    /\ cmp.built
    /\ cmp.inst.words = <<WordRun33, WordAuthor>>
    /\ cmp.word = WordRun15
    /\ SharedWindows(1) = 17
    /\ RoundedPercent(1) = 49
    /\ cmp.result = <<>>

\* C15: the list eval returns is in order of non-increasing match count,
\* whatever the similarities are: an entry with more matches and a lower
\* similarity precedes one with fewer matches and a higher similarity.
C15_ResultOrder ==
    (cmp.built /\ cmp.evals > 0) =>
        \A a, b \in 1..Len(cmp.result) :
            a < b => cmp.result[a].matches >= cmp.result[b].matches

\* "authors": AUTHORSHIP with 7 matches and 58% ahead of AUTHOR with 6 and 75%
C15_Witness ==
    /\ cmp.built
    /\ cmp.inst.words = <<WordAuthor, WordAuthorship>>
    /\ cmp.word = WordAuthors
    /\ cmp.result = <<[word |-> WordAuthorship, matches |-> 7, similarity |-> 58],
                      [word |-> WordAuthor, matches |-> 6, similarity |-> 75]>>

\* C16: for an empty or whitespace-only candidate, and any vocabulary, eval
\* returns the empty list.
C16_EmptyCandidate ==
    (cmp.built /\ cmp.evals > 0 /\ Trim(cmp.word) = <<>>) => cmp.result = <<>>

\* the empty candidate looked up in a vocabulary holding " a": its two
\* windows of three spaces match the word's first window
C16_Witness ==
    /\ cmp.built
    /\ cmp.inst.words = <<WordSpaceA, WordAuthor>>
    /\ cmp.word = <<>>
    /\ cmp.result = <<[word |-> WordSpaceA, matches |-> 2, similarity |-> 50]>>

\* C17 (as the code has it): eval never changes the word list, the trigram
\* map or the per-word trigram counts, and what it returns is what the
\* instance as constructed returns for the same word; of the instance it
\* writes only the counters trigrams_count and trigrams_matches.
C17_IndexUnchanged ==
    cmp.built =>
        /\ cmp.inst.words = cmp.made.words
        /\ cmp.inst.trigrams = cmp.made.trigrams
        /\ cmp.inst.word_trigram_count = cmp.made.word_trigram_count
        /\ cmp.evals > 0 => cmp.result = eval(cmp.made, cmp.word).result

\* two lookups made: the index as constructed, the tallies changed
C17_Witness ==
    /\ cmp.built
    /\ cmp.evals = 2
    /\ cmp.inst.words = <<WordAuthor, WordAuthorship>>
    /\ cmp.inst.trigrams = cmp.made.trigrams
    /\ cmp.word = WordAuthors
    /\ cmp.made.trigrams_count = <<0, 0>>
    /\ cmp.inst.trigrams_count = <<12, 14>>
    /\ cmp.inst.trigrams_matches = 9
    /\ cmp.made.trigrams_matches = 0

\* C17 as stated: once the constructor has returned, no eval changes any
\* state the instance holds, counters included.
C17_InstanceImmutable ==
    cmp.built => cmp.inst = cmp.made


\* C28: the list eval(w) returns depends only on w and on the vocabulary
\* given at construction: after any evals made before on the same instance,
\* the result is the one a new instance of that vocabulary returns for w.
C28_EvalDeterministic ==
    (cmp.built /\ cmp.evals > 0) =>
        cmp.result = eval(CompareNew(cmp.inputs), cmp.word).result

\* "author" looked up after "BYLINE" on the same instance: the counters hold
\* the eight windows of each lookup, the result is that of a first lookup
C28_Witness ==
    /\ cmp.built
    /\ cmp.evals = 2
    /\ cmp.inputs = <<WordAuthor, WordByline>>
    /\ cmp.word = WordAuthorLower
    /\ cmp.inst.trigrams_count = <<8, 8>>
    /\ cmp.result = <<[word |-> WordAuthor, matches |-> 8, similarity |-> 100]>>

\* C29: every entry eval returns has matches no greater than the word's
\* trigram count, and a similarity from 49% to 100%.
C29_SimilarityIsPercentage ==
    (cmp.built /\ cmp.evals > 0) =>
        \A k \in 1..Len(cmp.result) :
            /\ \A i \in 1..Len(cmp.inst.words) :
                   cmp.inst.words[i] = cmp.result[k].word
                       => cmp.result[k].matches <= cmp.inst.word_trigram_count[i]
            /\ cmp.result[k].similarity >= MinPercentage
            /\ cmp.result[k].similarity <= 100

\* the word of three equal letters has five windows; the candidate of four
\* has six, every one of them listed for the word
C29_Witness ==
    /\ cmp.built
    /\ cmp.inputs = <<WordTriple, WordByline>>
    /\ cmp.inst.word_trigram_count[1] = 5
    /\ cmp.word = WordQuad
    /\ cmp.result = <<[word |-> WordTriple, matches |-> 6, similarity |-> 120]>>

-----------------------------------------------------------------------------
(* clean_extracted_content called on a text, and again on what it returned  *)

LineReaders ==    \* "Readers who want updates can Sign up"
    <<"R","e","a","d","e","r","s"," ","w","h","o"," ","w","a","n","t"," ","u","p","d","a","t","e","s"," ","c","a","n"," ","S","i","g","n"," ","u","p">>
LineWeekly ==    \* "for the weekly letter at the front desk"
    <<"f","o","r"," ","t","h","e"," ","w","e","e","k","l","y"," ","l","e","t","t","e","r"," ","a","t"," ","t","h","e"," ","f","r","o","n","t"," ","d","e","s","k">>
LineMoney ==    \* "the Money desk opened a new office"
    <<"t","h","e"," ","M","o","n","e","y"," ","d","e","s","k"," ","o","p","e","n","e","d"," ","a"," ","n","e","w"," ","o","f","f","i","c","e">>
LinePicked ==    \* "the editors picked this one as the Next"
    <<"t","h","e"," ","e","d","i","t","o","r","s"," ","p","i","c","k","e","d"," ","t","h","i","s"," ","o","n","e"," ","a","s"," ","t","h","e"," ","N","e","x","t">>
LineStory ==    \* "Story of the old river told by the bank"
    <<"S","t","o","r","y"," ","o","f"," ","t","h","e"," ","o","l","d"," ","r","i","v","e","r"," ","t","o","l","d"," ","b","y"," ","t","h","e"," ","b","a","n","k">>

CleanLines ==
    { TextLong, TextLongB, TextShort, TextDigits, LineReaders, LineWeekly, LineMoney,
      LinePicked, LineStory }
LineBreaks == { <<" ">>, <<"\n">>, <<"\n", "\n">>, <<"\n", " ", "\n", "\n">> }
CleanInputs ==
    CleanLines \cup { a \o sep \o b : a \in CleanLines, b \in CleanLines, sep \in LineBreaks }

InitClean ==
    /\ tzOffset = 0
    /\ obj = NoObject
    /\ response = NoPayload
    /\ view = NoView
    /\ ret = NoReturn
    /\ gp = NoParse
    /\ cmp = NoCompare
    /\ call = NoCall

\* clean_extracted_content(x)
CallClean ==
    /\ call.method = "none"
    /\ \E x \in CleanInputs :
        call' = [method |-> "clean_extracted_content", input |-> x,
                 value |-> clean_extracted_content(x), pass |-> 1]
    /\ UNCHANGED <<tzOffset, obj, response, view, ret, gp, cmp>>

\* clean_extracted_content(y), y being what the first call returned
CallCleanAgain ==
    /\ call.method = "clean_extracted_content"
    /\ call.pass = 1
    /\ call' = [method |-> "clean_extracted_content", input |-> call.value,
                value |-> clean_extracted_content(call.value), pass |-> 2]
    /\ UNCHANGED <<tzOffset, obj, response, view, ret, gp, cmp>>

-----------------------------------------------------------------------------
(* clean_extracted_content called on a line that holds a phrase of the
   pattern library in one letter case or another                          *)

LineCouncil == <<"T","h","e"," ","c","o","u","n","c","i","l"," ","m","e","t"," ","o","n"," ","M","o","n","d","a","y"," ","a","n","d">>
LineHall == <<"i","n"," ","t","h","e"," ","h","a","l","l"," ","o","f"," ","t","h","e"," ","t","o","w","n">>

\* the phrases as the library lists them
PhraseNextStory == LineTailWords[1]
PhraseViewMore == LineTailWords[2]
PhraseMostPopular == LineTailWords[3]
PhraseRecommended == LineTailWords[5]
PhraseSignUpFor == LineTailWords[9]
ListedPhrases ==
    { PhraseNextStory, PhraseViewMore, PhraseMostPopular, PhraseRecommended, PhraseSignUpFor }

\* first letter of every word in upper case, the others in lower case
TitleCase(s) ==
    [i \in 1..Len(s) |->
        IF i = 1 \/ s[i - 1] = " " THEN ToUpperCase(<<s[i]>>)[1] ELSE ToLowerCase(<<s[i]>>)[1]]

LetterCases(phrase) == { phrase, ToLowerCase(phrase), ToUpperCase(phrase), TitleCase(phrase) }

\* one line: some text, the phrase, some more text
PhraseLine(written) == LineCouncil \o <<" ">> \o written \o <<" ">> \o LineHall

PhraseInputs ==
    { PhraseLine(written) :
        written \in UNION { LetterCases(phrase) : phrase \in ListedPhrases \cup {Advertisement} } }

\* clean_extracted_content(x) for a line x that holds a phrase
CallCleanPhrase ==
    /\ call.method = "none"
    /\ \E x \in PhraseInputs :
        call' = [method |-> "clean_extracted_content", input |-> x,
                 value |-> clean_extracted_content(x), pass |-> 0]
    /\ UNCHANGED <<tzOffset, obj, response, view, ret, gp, cmp>>

NextClean == CallClean \/ CallCleanAgain \/ CallCleanPhrase

SpecClean == InitClean /\ [][NextClean]_vars

\* C18: clean_extracted_content applied to its own result returns that
\* result: clean(clean(x)) = clean(x) for every text x.
C18_CleanIdempotent ==
    (call.method = "clean_extracted_content" /\ call.pass = 2) => call.value = call.input

\* two lines that end and begin a listed phrase: the first pass joins them,
\* the second cuts the joined line at the phrase
C18_Witness ==
    /\ call.method = "clean_extracted_content"
    /\ call.pass = 2
    /\ call.input = LineReaders \o <<" ">> \o LineWeekly
    /\ call.value = SubSeq(LineReaders, 1, 28)


CleanedPhrase == call.method = "clean_extracted_content" /\ call.pass = 0

\* C25 (as the code has it): a phrase pattern of the library is matched in
\* the letter case in which the library lists it, and only then is the line
\* cut at the phrase; in any other letter case the phrase and the rest of
\* the line stay in the text.  The word "advertisement" alone is matched in
\* every letter case, and only the word is removed.
C25_PhrasesAsListed ==
    CleanedPhrase =>
        /\ \A phrase \in ListedPhrases : \A written \in LetterCases(phrase) :
               call.input = PhraseLine(written) =>
                   call.value = IF written \in ListedPhrases THEN LineCouncil ELSE call.input
        /\ \A written \in LetterCases(Advertisement) :
               call.input = PhraseLine(written) =>
                   call.value = LineCouncil \o <<" ">> \o LineHall

\* "view more" in lower case stays in the line
C25_Witness ==
    /\ CleanedPhrase
    /\ call.input = PhraseLine(ToLowerCase(PhraseViewMore))
    /\ call.value = call.input
    /\ Contains(call.value, ToLowerCase(PhraseViewMore))

\* C25 as stated: every phrase pattern is matched regardless of letter
\* case, so the phrase is gone from the text in lower, upper and mixed case.
C25_PhrasesInAnyCase ==
    CleanedPhrase =>
        \A phrase \in ListedPhrases \cup {Advertisement} :
            Contains(ToLowerCase(call.input), ToLowerCase(phrase))
                => ~Contains(ToLowerCase(call.value), ToLowerCase(phrase))


-----------------------------------------------------------------------------
(* The content scorer on its own: GeneralParser.calculateContentScore on   *)
(* one element, and the two candidate loops that use it, on documents      *)
(* whose elements are the children of body, in document order.             *)

ScoredElement(tagName, className, id, length, paragraphs, links) ==
    [tagName |-> tagName, className |-> className, id |-> id,
     textContent |-> Rep("x", length), paragraphs |-> paragraphs, links |-> links]

ClassPostText == <<"P","o","s","t","-","T","e","x","t">>
ClassSidebar == <<"S","i","d","e","b","a","r">>
ClassNavStory == <<"N","a","v","-","H","e","a","d","e","r"," ","s","t","o","r","y">>
ClassBodyCopy == <<"B","o","d","y"," ","C","o","p","y">>
ClassStory == <<"s","t","o","r","y">>
IdContent == <<"c","o","n","t","e","n","t">>
IdFooter == <<"F","o","o","t","e","r">>

\* ID patterns that cleanDocument removes elements by
REMOVE_ID_PATTERNS ==
    { <<"n","a","v">>,
      <<"n","a","v","i","g","a","t","i","o","n">>,
      <<"m","e","n","u">>,
      <<"s","i","d","e","b","a","r">>,
      <<"h","e","a","d","e","r">>,
      <<"a","d","s">>,
      <<"a","d","v","e","r","t","i","s","e","m","e","n","t">>,
      <<"b","a","n","n","e","r">>,
      <<"p","r","o","m","o">>,
      <<"s","o","c","i","a","l">>,
      <<"s","h","a","r","e">>,
      <<"c","o","m","m","e","n","t","s">>,
      <<"r","e","l","a","t","e","d">>,
      <<"n","e","w","s","l","e","t","t","e","r">>,
      <<"s","i","g","n","u","p">>,
      <<"m","o","d","a","l">>,
      <<"p","o","p","u","p">>,
      <<"b","r","e","a","d","c","r","u","m","b">>,
      <<"p","a","g","i","n","a","t","i","o","n">>,
      <<"s","e","a","r","c","h">>,
      <<"c","o","o","k","i","e">>,
      <<"g","d","p","r">>,
      <<"c","o","n","s","e","n","t">> }

FooterWord == <<"f","o","o","t","e","r">>

\* cleanDocument, which runs before the content is looked for, leaves the
\* element in the document: its class and id hold none of the removal
\* patterns as written (the selectors [class*=...] and [id*=...] compare
\* with case), and processFooters does not take it for a footer
LeftByCleaning(el) ==
    /\ ~ClassRemoved(el.className)
    /\ ~\E pattern \in REMOVE_ID_PATTERNS : Contains(el.id, pattern)
    /\ ~Contains(el.className, FooterWord)
    /\ ~Contains(el.id, FooterWord)

\* elements to score
ScoreSamples ==
    { ScoredElement("div", className, id, length, paragraphs, links) :
        className \in {<<>>, ClassPostText, ClassSidebar, ClassNavStory, ClassBodyCopy},
        id \in {<<>>, IdContent, ClassSidebar},
        length \in {0, 40, 100, 150, 1000},
        paragraphs \in {0, 1, 3},
        links \in {0, 1, 3, 4} }

\* those of them that cleanDocument leaves in place
ScoreElements == { el \in ScoreSamples : LeftByCleaning(el) }

ElPlain == ScoredElement("div", <<>>, <<>>, 150, 0, 0)
ElPlainSection == ScoredElement("section", <<>>, <<>>, 150, 0, 0)
ElSidebar == ScoredElement("div", ClassSidebar, <<>>, 150, 0, 0)
ElTeaser == ScoredElement("div", ClassPostText, <<>>, 60, 1, 0)
ElStory == ScoredElement("div", ClassStory, <<>>, 150, 1, 1)
ElShortArticle == ScoredElement("article", <<>>, <<>>, 110, 0, 0)
ElFooterId == ScoredElement("div", <<>>, IdFooter, 100, 0, 0)
ElMain == ScoredElement("main", <<>>, <<>>, 30, 0, 0)

DocElements ==
    { ElPlain, ElPlainSection, ElSidebar, ElTeaser, ElStory, ElShortArticle, ElFooterId,
      ElMain }

MaxCandidates == 3
\* documents of elements that cleanDocument leaves in place
ScorerDocuments ==
    UNION { [1..n -> { el \in DocElements : LeftByCleaning(el) }] : n \in 1..MaxCandidates }
ScorerOptions == { [minContentLength |-> m] : m \in {0, 50, 120} }

\* doc.body.textContent: the texts of the children, one after the other
RECURSIVE BodyText(_)
BodyText(elements) ==
    IF elements = <<>> THEN <<>>
    ELSE elements[1].textContent \o BodyText(Tail(elements))

InitScorer ==
    /\ tzOffset = 0
    /\ obj = NoObject
    /\ response = NoPayload
    /\ view = NoView
    /\ ret = NoReturn
    /\ gp = NoParse
    /\ cmp = NoCompare
    /\ call = NoCall

\* calculateContentScore(element, element.textContent)
CallScore ==
    /\ call.method = "none"
    /\ \E element \in ScoreElements :
        call' = [method |-> "calculateContentScore", input |-> element,
                 value |-> calculateContentScore(element, element.textContent), pass |-> 1]
    /\ UNCHANGED <<tzOffset, obj, response, view, ret, gp, cmp>>

\* extractContentWithHtml without its body fallback
HtmlReturnedOrNull(elements, minimum, best) ==
    [bestElement |-> best.bestElement,
     returned |-> IF best.bestElement # 0 THEN "element" ELSE "null"]

\* what extractContentWithHtml returns after its selector loop returned nothing:
\* the best element, else body when its text is long enough, else null
HtmlReturned(elements, minimum, best) ==
    [bestElement |-> best.bestElement,
     returned |-> IF best.bestElement # 0 THEN "element"
                  ELSE IF Len(BodyText(elements)) >= minimum THEN "body"
                  ELSE "null"]

\* extractContentWithHtml(doc) on a document where every element that a content
\* selector finds has a text shorter than the minimum, so that the selector loop
\* returns nothing
ExtractContentWithHtml ==
    /\ call.method = "none"
    /\ \E elements \in ScorerDocuments, options \in ScorerOptions :
        /\ \A i \in 1..Len(elements) :
              MatchesContentSelector(elements[i])
                  => Len(elements[i].textContent) < MinContentLength(options, HtmlMinimumFallback)
        /\ call' = [method |-> "extractContentWithHtml",
                    input |-> [elements |-> elements, options |-> options],
                    value |-> HtmlReturned(elements,
                                  MinContentLength(options, HtmlMinimumFallback),
                                  BestOf(elements, HtmlCandidateTags,
                                         MinContentLength(options, HtmlMinimumFallback),
                                         1, NoBest)),
                    pass |-> 1]
    /\ UNCHANGED <<tzOffset, obj, response, view, ret, gp, cmp>>

\* what strategy 2 returns: the text of the best element, else null
TextReturned(best) ==
    [bestElement |-> best.bestElement,
     returned |-> IF best.bestElement # 0 THEN "element" ELSE "null"]

\* strategy 2 of extractContent(doc), on a document where no content selector
\* finds an element, so that strategy 1 returned null
ExtractContentStrategy2 ==
    /\ call.method = "none"
    /\ \E elements \in ScorerDocuments, options \in ScorerOptions :
        /\ \A i \in 1..Len(elements) : ~MatchesContentSelector(elements[i])
        /\ call' = [method |-> "extractContent",
                    input |-> [elements |-> elements, options |-> options],
                    value |-> TextReturned(
                                  BestOf(elements, TextCandidateTags,
                                         MinContentLength(options, TextMinimumFallback),
                                         1, NoBest)),
                    pass |-> 1]
    /\ UNCHANGED <<tzOffset, obj, response, view, ret, gp, cmp>>

NextScorer == CallScore \/ ExtractContentWithHtml \/ ExtractContentStrategy2

SpecScorer == InitScorer /\ [][NextScorer]_vars


\* how many of the keywords occur in one of the names, whatever the case
KeywordsIn(keywords, names) ==
    Cardinality({ k \in 1..Len(keywords) :
                    \E name \in names : Contains(ToLowerCase(name), keywords[k]) })

\* the formula of the score over the names it reads keywords from, times the
\* denominator d = max(len(text), 100): r > 0.3 is 1000 * links > 3 * d, and
\* the penalty 100 * r is 10000 * links / d
FormulaTimes(d, length, paragraphs, links, content, noise) ==
    MaxOf({0, (length + 50 * paragraphs + 100 * content - 200 * noise) * d
                 - (IF 1000 * links > 3 * d THEN 10000 * links ELSE 0)})

FollowsFormula(element, value, names) ==
    SameScore(value,
              [num |-> FormulaTimes(MaxOf({Len(element.textContent), 100}),
                                    Len(element.textContent), element.paragraphs,
                                    element.links, KeywordsIn(contentKeywords, names),
                                    KeywordsIn(navKeywords, names)),
               den |-> MaxOf({Len(element.textContent), 100})])

Selecting == call.method \in {"extractContentWithHtml", "extractContent"}
LoopTags(method) ==
    IF method = "extractContentWithHtml" THEN HtmlCandidateTags ELSE TextCandidateTags
LoopFallback(method) ==
    IF method = "extractContentWithHtml" THEN HtmlMinimumFallback ELSE TextMinimumFallback

\* positions of the candidates whose text has at least minimum characters
Meeting(elements, tags, minimum) ==
    { i \in 1..Len(elements) :
        elements[i].tagName \in tags /\ Len(elements[i].textContent) >= minimum }

ScoreAt(elements, i) == calculateContentScore(elements[i], elements[i].textContent)

\* positions among meeting whose score is above 0
Positive(elements, meeting) ==
    { i \in meeting : Greater(ScoreAt(elements, i), [num |-> 0, den |-> 1]) }

\* best is one of meeting, none of them scores higher, and none that scores
\* the same comes earlier in the document
BestAmong(elements, best, meeting) ==
    /\ best \in meeting
    /\ \A j \in meeting :
          /\ ~Greater(ScoreAt(elements, j), ScoreAt(elements, best))
          /\ SameScore(ScoreAt(elements, j), ScoreAt(elements, best)) => best <= j

\* C20 (as the code has it): with the minimum in force (the configured
\* minimum content length, or 100 in extractContentWithHtml and 50 in
\* extractContent when it is configured as 0), a block is selected exactly
\* when some candidate meets the minimum with a score above 0; the selected
\* block never has text shorter than the minimum, it has the maximum score
\* among the candidates that meet the minimum, and of those that tie on the
\* maximum it is the earliest in document order.
C20_BestPositiveCandidate ==
    Selecting =>
        /\ call.value.bestElement # 0
              <=> Positive(call.input.elements,
                           Meeting(call.input.elements, LoopTags(call.method),
                                   MinContentLength(call.input.options,
                                                    LoopFallback(call.method)))) # {}
        /\ call.value.bestElement # 0 =>
              /\ BestAmong(call.input.elements, call.value.bestElement,
                           Meeting(call.input.elements, LoopTags(call.method),
                                   MinContentLength(call.input.options,
                                                    LoopFallback(call.method))))
              /\ Len(call.input.elements[call.value.bestElement].textContent)
                     >= call.input.options.minContentLength

\* C20 (as stated): whenever some candidate has text of at least the
\* configured minimum content length, one of them is selected; the selected
\* block is never shorter than the minimum, has the maximum score among the
\* candidates that meet the minimum, and is the earliest of those that tie.
C20_BestCandidate ==
    Selecting =>
        /\ Meeting(call.input.elements, LoopTags(call.method),
                   call.input.options.minContentLength) # {}
              => call.value.bestElement # 0
        /\ call.value.bestElement # 0 =>
              BestAmong(call.input.elements, call.value.bestElement,
                        Meeting(call.input.elements, LoopTags(call.method),
                                call.input.options.minContentLength))

\* a short block of high score followed by two blocks of equal score: the
\* first of the two is selected
C20_Witness ==
    /\ call.method = "extractContentWithHtml"
    /\ call.input.elements = <<ElTeaser, ElPlain, ElPlainSection>>
    /\ call.input.options.minContentLength = 120
    /\ call.value.bestElement = 2


\* the minimum in force in the loop that ran
LoopMinimum == MinContentLength(call.input.options, LoopFallback(call.method))

\* no candidate of the loop that ran has a text of the minimum length
NoneMeeting ==
    Meeting(call.input.elements, LoopTags(call.method), LoopMinimum) = {}

\* C21 (as the code has it): when no candidate block meets the minimum
\* content length, extractContentWithHtml returns the markup of body if the
\* text of body has at least the minimum length, and null only if body is
\* shorter too; strategy 2 of extractContent returns null.
C21_BodyFallback ==
    (Selecting /\ NoneMeeting) =>
        /\ call.value.bestElement = 0
        /\ call.method = "extractContent" => call.value.returned = "null"
        /\ call.method = "extractContentWithHtml" =>
              call.value.returned =
                  IF Len(BodyText(call.input.elements)) >= LoopMinimum
                  THEN "body" ELSE "null"

\* C21 (as stated): when no candidate block meets the minimum content
\* length, content selection returns null, not text or markup from another
\* part of the page.
C21_NoGuessing ==
    (Selecting /\ NoneMeeting) => call.value.returned = "null"

\* two blocks of 60 characters under a minimum of 120: neither meets it,
\* body does, and body is returned
C21_Witness ==
    /\ call.method = "extractContentWithHtml"
    /\ call.input.elements = <<ElTeaser, ElTeaser>>
    /\ call.input.options.minContentLength = 120
    /\ call.value = [bestElement |-> 0, returned |-> "body"]


-----------------------------------------------------------------------------
(* GeneralParser on documents as trees: removeEmptyElements turn by turn,  *)
(* and parse with its options.                                             *)

TextBlank == <<" ", "\n">>
TextTwoWords == <<"a", " ", "b">>

\* parents of the elements below body, which is at position 3
TreeShapes ==
    { <<>>, <<3>>, <<3, 3>>, <<3, 4>>, <<3, 3, 3>>, <<3, 3, 5>>, <<3, 4, 3>>, <<3, 4, 4>>,
      <<3, 4, 5>> }

NodeKinds ==
    { [tagName |-> tagName, text |-> text] :
        tagName \in {"div", "p"}, text \in {<<>>, TextBlank, TextTwoWords} }
        \cup { [tagName |-> "img", text |-> <<>>] }

MakeTree(shape, kinds, bodyText) ==
    [nodes |-> << TreeNode("html", 0, <<>>), TreeNode("head", 1, <<>>),
                  TreeNode("body", 1, bodyText) >>
                   \o [i \in 1..Len(shape) |-> TreeNode(kinds[i].tagName, shape[i], kinds[i].text)],
     removed |-> {}]

\* what the HTML parser can build: img holds nothing, p holds no div and no p
WellFormed(doc) ==
    \A i \in 4..Len(doc.nodes) :
        /\ doc.nodes[doc.nodes[i].parent].tagName # "img"
        /\ doc.nodes[doc.nodes[i].parent].tagName = "p" => doc.nodes[i].tagName = "img"

TreeDocuments ==
    { doc \in UNION { { MakeTree(shape, kinds, bodyText) :
                            kinds \in [1..Len(shape) -> NodeKinds],
                            bodyText \in {<<>>, TextTwoWords} } : shape \in TreeShapes } :
        WellFormed(doc) }

InitTree ==
    /\ tzOffset = 0
    /\ obj = NoObject
    /\ response = NoPayload
    /\ view = NoView
    /\ ret = NoReturn
    /\ gp = NoParse
    /\ cmp = NoCompare
    /\ call = NoCall

\* removeEmptyElements(doc) is entered: removed = true, no turn done yet
EnterRemoveEmptyElements ==
    /\ call.method = "none"
    /\ \E doc \in TreeDocuments :
        call' = [method |-> "removeEmptyElements", input |-> doc, value |-> doc, pass |-> 0]
    /\ UNCHANGED <<tzOffset, obj, response, view, ret, gp, cmp>>

\* one turn of while (removed): the loop is left when the turn removed nothing
Turned(doc, after) ==
    [call EXCEPT !.method = IF after.removed = doc.removed
                            THEN "removeEmptyElements returned"
                            ELSE "removeEmptyElements",
                 !.value = after,
                 !.pass = @ + 1]

RemoveEmptyElementsTurn ==
    /\ call.method = "removeEmptyElements"
    /\ call' = Turned(call.value, EmptyElementsTurn(call.value, AllElements(call.value), 1))
    /\ UNCHANGED <<tzOffset, obj, response, view, ret, gp, cmp>>

NextTree == EnterRemoveEmptyElements \/ RemoveEmptyElementsTurn

SpecTree == InitTree /\ [][NextTree]_vars

InRemoveEmptyElements ==
    call.method \in {"removeEmptyElements", "removeEmptyElements returned"}

\* an element other than img, br, hr, input, meta and link with no child
\* element and only whitespace text
LeftEmpty(doc, el) ==
    /\ doc.nodes[el].tagName \notin {"img", "br", "hr", "input", "meta", "link"}
    /\ children(doc, el) = {}
    /\ \A k \in 1..Len(textContent(doc, el)) : textContent(doc, el)[k] \in WhiteSpace

\* the element had non-whitespace text when the call began, or holds an
\* element that is still in the document
MustStay(before, now, el) ==
    \/ \E k \in 1..Len(textContent(before, el)) : textContent(before, el)[k] \notin WhiteSpace
    \/ \E j \in InDocument(now) : IsAncestor(now.nodes, el, j)

\* C27: removeEmptyElements terminates on every document: the loop takes at
\* most one turn more than the document has elements, each turn but the last
\* removing one at least; when it returns, no element other than img, br,
\* hr, input, meta and link is left with no child elements and only
\* whitespace text; an element with non-whitespace text or with a surviving
\* descendant is never removed.
C27_RemoveEmptyElements ==
    InRemoveEmptyElements =>
        /\ call.pass <= Len(call.input.nodes) + 1
        /\ call.method = "removeEmptyElements"
              => call.pass <= Cardinality(call.value.removed)
        /\ call.method = "removeEmptyElements returned"
              => \A el \in InDocument(call.value) : ~LeftEmpty(call.value, el)
        /\ \A el \in 1..Len(call.input.nodes) :
              MustStay(call.input, call.value, el) => el \in InDocument(call.value)

\* body holds a blank div around an empty p, and a p with text: the first
\* turn removes head and the empty p, the second the div, the third nothing
C27_Witness ==
    /\ call.method = "removeEmptyElements returned"
    /\ call.input.nodes = MakeTree(<<3, 4, 3>>,
                                   << [tagName |-> "div", text |-> TextBlank],
                                      [tagName |-> "p", text |-> <<>>],
                                      [tagName |-> "p", text |-> TextTwoWords] >>,
                                   <<>>).nodes
    /\ call.value.removed = {2, 4, 5}
    /\ call.pass = 3

-----------------------------------------------------------------------------
(* GeneralParser.parse and the views over it, on parsed documents. *)

TextThreeWords == <<"o","n","e"," ","t","w","o"," ","t","h","r","e","e">>

ParseKinds ==
    NodeKinds \cup { [tagName |-> tagName, text |-> TextThreeWords] : tagName \in {"div", "p"} }

\* documents of up to two elements below body
ParseDocuments ==
    { doc \in UNION { { MakeTree(shape, kinds, bodyText) :
                            kinds \in [1..Len(shape) -> ParseKinds],
                            bodyText \in {<<>>, TextTwoWords} } :
                      shape \in {<<>>, <<3>>, <<3, 3>>, <<3, 4>>} } :
        WellFormed(doc) }

\* minContentLength 0 stands for every falsy setting; 10 is parseContent's, 50 the default
ParseOptions ==
    [minContentLength : {0, 10, 50}, cleanHtmlOnly : BOOLEAN, removeImages : BOOLEAN]

\* the options of GeneralParser.parseContent(url, html)
ParseContentOptions == [minContentLength |-> 10, cleanHtmlOnly |-> FALSE, removeImages |-> FALSE]

\* GeneralParser.parse(html) is called and returns or throws
CallParse ==
    /\ call.method = "none"
    /\ \E html \in {"page", "empty", "other"}, doc \in ParseDocuments, options \in ParseOptions :
        /\ html # "page" => doc = MakeTree(<<>>, <<>>, <<>>)
        /\ call' = [method |-> "parse",
                    input |-> [html |-> html, doc |-> doc, options |-> options],
                    value |-> parseTree(html, doc, options), pass |-> 0]
    /\ UNCHANGED <<tzOffset, obj, response, view, ret, gp, cmp>>

\* what a view returns for a body: threw is the error that left the view
ViewThrew(message) == [threw |-> message, status |-> "none", error_message |-> "null"]
ViewReturned(status, error_message) ==
    [threw |-> "null", status |-> status, error_message |-> error_message]

\* GeneralParserView(body) of the view module that returns the flattened
\* payload: status is the payload's article_status
GeneralParserView(body) ==
    IF body.null THEN ViewThrew("Invalid Request Parameter")
    ELSE IF parseTree(body.raw_content, body.doc, ParseContentOptions).threw # "null"
         THEN ViewReturned("Error",
                  parseTree(body.raw_content, body.doc, ParseContentOptions).threw)
         ELSE IF parseTree(body.raw_content, body.doc, ParseContentOptions).content.kind
                     = "element"
              THEN ViewReturned("Done", "null")
              ELSE ViewReturned("Error", "No Content")

\* GeneralParserView(body) of the view module that returns the parser's
\* fields as they are: its try block ends with status "Done"
GeneralParserViewPlain(body) ==
    IF body.null THEN ViewThrew("Invalid Request Parameter")
    ELSE IF parseTree(body.raw_content, body.doc, ParseContentOptions).threw # "null"
         THEN ViewReturned("Error",
                  parseTree(body.raw_content, body.doc, ParseContentOptions).threw)
         ELSE ViewReturned("Done", "null")

\* the request bodies: null, a page, and a body whose raw_content is '' or missing
ViewBodies ==
    { [null |-> TRUE, raw_content |-> "other", doc |-> MakeTree(<<>>, <<>>, <<>>)] }
        \cup { [null |-> FALSE, raw_content |-> "page", doc |-> doc] : doc \in ParseDocuments }
        \cup { [null |-> FALSE, raw_content |-> html, doc |-> MakeTree(<<>>, <<>>, <<>>)] :
                 html \in {"empty", "other"} }

CallGeneralParserView ==
    /\ call.method = "none"
    /\ \E body \in ViewBodies :
        call' = [method |-> "GeneralParserView", input |-> body,
                 value |-> GeneralParserView(body), pass |-> 0]
    /\ UNCHANGED <<tzOffset, obj, response, view, ret, gp, cmp>>

CallGeneralParserViewPlain ==
    /\ call.method = "none"
    /\ \E body \in ViewBodies :
        call' = [method |-> "GeneralParserView", input |-> body,
                 value |-> GeneralParserViewPlain(body), pass |-> 1]
    /\ UNCHANGED <<tzOffset, obj, response, view, ret, gp, cmp>>

NextParse == CallParse \/ CallGeneralParserView \/ CallGeneralParserViewPlain

SpecParse == InitTree /\ [][NextParse]_vars


ParseCalled == call.method = "parse"

\* C26: GeneralParser.parse throws only for an html argument that is empty
\* or no string, and then with the message "Invalid HTML content provided";
\* for every non-empty HTML string and every combination of options it
\* returns a ParsedContent, also when cleaning removes every element.
C26_ParseThrowsOnlyForInvalidHtml ==
    ParseCalled =>
        /\ call.input.html # "page" => call.value.threw = "Invalid HTML content provided"
        /\ call.input.html = "page" => call.value.threw = "null"

\* cleanHtml('<div></div>'): head, the div, body and html are removed in
\* turn, and parse fails reading doc.documentElement.outerHTML
C26_Witness ==
    /\ ParseCalled
    /\ call.input.html = "page"
    /\ call.input.doc = MakeTree(<<3>>, << [tagName |-> "div", text |-> <<>>] >>, <<>>)
    /\ call.input.options = [minContentLength |-> 50, cleanHtmlOnly |-> TRUE,
                             removeImages |-> FALSE]
    /\ call.value.threw = "TypeError"

\* C30: in the ParsedContent parse returns, wordCount = 0 and readingTime = 0
\* when content is null, and readingTime = ceil(wordCount / 200) always.
C30_WordMetrics ==
    (ParseCalled /\ call.value.threw = "null") =>
        /\ call.value.content.kind = "null"
              => (call.value.wordCount = 0 /\ call.value.readingTime = 0)
        /\ call.value.readingTime * WordsPerMinute >= call.value.wordCount
        /\ (call.value.readingTime - 1) * WordsPerMinute < call.value.wordCount

\* parse('<p>a b</p>') with the default options: no content is selected, the
\* text is the body's last-resort text, two words that take a minute
C30_Witness ==
    /\ ParseCalled
    /\ call.input.html = "page"
    /\ call.input.doc = MakeTree(<<3>>, << [tagName |-> "p", text |-> TextTwoWords] >>, <<>>)
    /\ call.input.options = [minContentLength |-> 50, cleanHtmlOnly |-> FALSE,
                             removeImages |-> FALSE]
    /\ call.value.threw = "null"
    /\ call.value.content.kind = "null"
    /\ call.value.wordCount = 2
    /\ call.value.readingTime = 1

\* the ParsedContent the view got from parseContent(body.url, body.raw_content)
ParsedFor(body) == parseTree(body.raw_content, body.doc, ParseContentOptions)

GotContent(body) == ParsedFor(body).threw = "null" /\ ParsedFor(body).content.kind = "element"

\* C22: for a body that is not null GeneralParserView does not throw; its
\* status is "Done", with error_message null, exactly when the parser
\* produced content that is neither null nor empty, and "Error" with an
\* error_message that is not null otherwise.
C22_ViewStatus ==
    (call.method = "GeneralParserView" /\ ~call.input.null) =>
        /\ call.value.threw = "null"
        /\ GotContent(call.input)
              => (call.value.status = "Done" /\ call.value.error_message = "null")
        /\ ~GotContent(call.input)
              => (call.value.status = "Error" /\ call.value.error_message # "null")

\* the view that returns the parser's fields, on a page of one short
\* paragraph: content is null and the status is "Done"
C22_Witness ==
    /\ call.method = "GeneralParserView"
    /\ call.pass = 1
    /\ call.input = [null |-> FALSE, raw_content |-> "page",
                     doc |-> MakeTree(<<3>>, << [tagName |-> "p", text |-> TextTwoWords] >>,
                                      <<>>)]
    /\ ParsedFor(call.input).content.kind = "null"
    /\ call.value = ViewReturned("Done", "null")


-----------------------------------------------------------------------------
(* Author.__is_invalid_tag called on a tag *)

ValueComment == <<"C","O","M","M","E","N","T">>
ValueComments == <<"c","o","m","m","e","n","t","s">>
ValueShareComments == <<"s","h","a","r","e","-","c","o","m","m","e","n","t","s">>
ValueCommentsShare == <<"c","o","m","m","e","n","t","s","-","s","h","a","r","e">>
ValueFbShare == <<"f","b","-","s","h","a","r","e">>
ValueFoot == <<"f","o","o","t">>
ValueContent == <<"c","o","n","t","e","n","t">>
ValueByline == <<"b","y","l","i","n","e">>

AttrValues ==
    { ValueComment, ValueComments, ValueShareComments, ValueCommentsShare, ValueFbShare,
      ValueFoot, ValueContent, ValueByline }
ListItems == { ValueShareComments, ValueFbShare, ValueByline }

Attrs ==
    { StringAttr(v) : v \in AttrValues } \cup { ObjectAttr }
        \cup { ListAttr(items) : items \in [1..1 -> ListItems] \cup [1..2 -> ListItems] }

\* tags of no, one and two attributes
TagAttrs == { <<>> } \cup [1..1 -> Attrs] \cup [1..2 -> Attrs]

InitInvalidTag ==
    /\ tzOffset = 0
    /\ obj = NoObject
    /\ response = NoPayload
    /\ view = NoView
    /\ ret = NoReturn
    /\ gp = NoParse
    /\ cmp = NoCompare
    /\ call = NoCall

\* this.__is_invalid_tag(tag)
CallIsInvalidTag ==
    /\ call.method = "none"
    /\ \E attrs \in TagAttrs :
        call' = [method |-> "__is_invalid_tag", input |-> attrs,
                 value |-> is_invalid_tag(attrs), pass |-> 0]
    /\ UNCHANGED <<tzOffset, obj, response, view, ret, gp, cmp>>

NextInvalidTag == CallIsInvalidTag

SpecInvalidTag == InitInvalidTag /\ [][NextInvalidTag]_vars

\* the strings among the attribute values of a tag, list items included
ValuesOf(attrs) ==
    { attrs[a].value : a \in { b \in 1..Len(attrs) : attrs[b].kind = "string" } }
        \cup UNION { { attrs[a].items[k] : k \in 1..Len(attrs[a].items) } :
                       a \in { b \in 1..Len(attrs) : attrs[b].kind = "list" } }

\* the similarity of the value to the key at position i, as eval computes
\* it: matches over the key's trigram count, in percent, rounded
SimilarityTo(i, v) ==
    Similarity(Matches(INVALID_KEY_DATA.trigrams, to_trigram(v), i - 1),
               INVALID_KEY_DATA.word_trigram_count[i])

\* C24: __is_invalid_tag returns true when an attribute value of the tag
\* equals a comment or footer key or has a similarity of at least 70% to
\* any of the keys, and false when no value equals a key and every key
\* scores below 70% for every value.
C24_NoiseAt70 ==
    call.method = "__is_invalid_tag" =>
        call.value = (\E v \in ValuesOf(call.input) :
                         \/ InSeq(v, INVALID_KEYS)
                         \/ \E i \in 1..Len(INVALID_KEYS) :
                                SimilarityTo(i, v) >= InvalidSimilarity)

\* class="share-comments": SHARE scores 5 of 7 windows, 71%, but COMMENT,
\* with 5 of 9, comes first in the result, and the tag is not noise
C24_Witness ==
    /\ call.method = "__is_invalid_tag"
    /\ call.input = << StringAttr(ValueShareComments) >>
    /\ SimilarityTo(4, ValueShareComments) = 71
    /\ eval(INVALID_KEY_DATA, ValueShareComments).result[1].word = INVALID_KEYS[1]
    /\ eval(INVALID_KEY_DATA, ValueShareComments).result[1].similarity = 56
    /\ call.value = FALSE

====
